---- MODULE Spec2Model ----
(***************************************************************************)
(* Schema-to-layout compilation of the flow management system: column      *)
(* addressing, formula translation, formula validation and application,    *)
(* the stage header layout, name validation, model invocation with         *)
(* retries, extraction of the JSON text of a response, the broadcast to    *)
(* the WebSocket clients and the workflow endpoint, as implemented in      *)
(* src/main.py, src/main_cli.py, src/backend/fms_agent.py and              *)
(* src/backend/main.py.                                                    *)
(*                                                                         *)
(* Text is a sequence of one-character strings.  Each component has its    *)
(* own specification (SpecAddr, SpecTranslate, SpecLayout, SpecPipeline,   *)
(* SpecValidate, SpecInvoke, SpecClean, SpecBroadcast, SpecWorkflow); the  *)
(* variables of the components a specification does not exercise stay at   *)
(* the idle value its initial predicate gives them.                        *)
(***************************************************************************)
EXTENDS Integers, Sequences, FiniteSets, TLC

VARIABLES
    cl_arg,      \* col_letter: the argument of the call
    index,       \* col_letter: local `index`
    result,      \* col_letter: local `result`
    cl_pc,       \* col_letter: "idle" | "loop" | "done"
    tf_formula,  \* translate_formula: argument `formula`
    tf_col_map,  \* translate_formula: argument `col_map` (insertion-ordered dict)
    tf_row,      \* translate_formula: argument `row`
    tf_out,      \* translate_formula: returned text
    tf_pc,       \* translate_formula: "idle" | "call" | "done"
    ls_sheet,    \* _add_headers_with_stage_format: argument `sheet`
    ls_values,   \* the values().update calls issued, in order
    ls_requests, \* the body of the batchUpdate call issued
    ls_stage_names_row,  \* local `stage_names_row` after the stage loop
    ls_stage_ranges,     \* local `stage_ranges` after the stage loop
    ls_computed, \* locals start_idx, end_idx at the end of each loop pass
    ls_pc,       \* "idle" | "call" | "done"
    pl_pipeline, \* "main" (main.py) | "cli" (main_cli.py) | "fms" (FMSAgent.execute)
    pl_flow,     \* state flow: the FlowSchema of the structure phase, or NoFlow
    pl_llm_plan, \* the rules of the FormulaPlan parsed from the model's response
    pl_plan,     \* state formulas: the rules handed on to apply_formulas
    pl_errors,   \* state errors (main_cli.py)
    pl_writes,   \* the formula writes issued to the spreadsheet API, in order
    pl_sheet_requests,   \* the addSheet requests of the sheet-creating batchUpdate
    pl_values,   \* the header values().update calls issued, in order
    pl_format_requests,  \* the body of the formatting batchUpdate of each sheet
    pl_warnings, \* state warnings (main_cli.py): AgentState.warnings
    pl_log,      \* the skip messages logged or printed, in order
    pl_pc,       \* "idle" | "structure" | "formula" | "sheets" | "setup" | "apply"
                 \* | "done" | "rerun_done" | "failed"
    vn_kind,     \* the validator called: "column" | "sheet" | "stage"
    vn_raw,      \* the validator's argument `v`
    vn_out,      \* the name the validator returned
    vn_pc,        \* "idle" | "call" | "stored" | "rejected"
    pl_trace,    \* the phases that ended, in order: "structure_ok", "formula_failed", ...
    pl_llm_calls, \* the number of llm.invoke calls made
    pl_remote,   \* the remote spreadsheet calls issued, in order
    rr_values,   \* second run of setup_sheets: the header values().update calls
    rr_format_requests, \* second run of setup_sheets: the formatting batchUpdate of each sheet
    rr_writes,    \* second run of apply_formulas: the formula writes
    iv_max,      \* LLMClient.invoke: Config.MAX_RETRIES
    iv_attempt,  \* LLMClient.invoke: loop variable `attempt`
    iv_calls,    \* the outcomes of the chat.completions.create calls made, in order
    iv_result,   \* the content returned or the exception raised by invoke
    iv_pc,        \* "idle" / "loop" / "returned" / "raised"
    jc_content,  \* JSONCleaner.clean: argument `content`
    jc_out,      \* the text returned, or the ValueError raised
    jc_pc,        \* "idle" / "call" / "returned" / "raised"
    bc_conns,    \* ConnectionManager.active_connections
    bc_index,    \* broadcast: position of the list iterator of the for loop
    bc_cur,      \* broadcast: loop variable `connection`
    bc_sends,    \* the send_json calls of the broadcast, in order
    bc_stayed,   \* the connections in active_connections since the broadcast began
    bc_closed,   \* the sockets that disconnected during the broadcast
    bc_pc,        \* "idle" / "next" / "send" / "done"
    wf_pc,       \* create_workflow: the position of each request
    wf_broadcasts, \* the messages each request passed to manager.broadcast, in order
    wf_response  \* the response of each request: "none" / "success" / "http500"

addrVars == <<cl_arg, index, result, cl_pc>>
transVars == <<tf_formula, tf_col_map, tf_row, tf_out, tf_pc>>
layoutVars == <<ls_sheet, ls_values, ls_requests, ls_stage_names_row,
                ls_stage_ranges, ls_computed, ls_pc>>
outVars == <<pl_sheet_requests, pl_values, pl_format_requests, pl_warnings, pl_log>>
pipeVars == <<pl_pipeline, pl_flow, pl_llm_plan, pl_plan, pl_errors, pl_writes, outVars,
              pl_pc>>
validVars == <<vn_kind, vn_raw, vn_out, vn_pc>>
rrVars == <<rr_values, rr_format_requests, rr_writes>>
runVars == <<pl_trace, pl_llm_calls, pl_remote, rrVars>>
invokeVars == <<iv_max, iv_attempt, iv_calls, iv_result, iv_pc>>
cleanVars == <<jc_content, jc_out, jc_pc>>
bcastVars == <<bc_conns, bc_index, bc_cur, bc_sends, bc_stayed, bc_closed, bc_pc>>
wfVars == <<wf_pc, wf_broadcasts, wf_response>>
vars == <<addrVars, transVars, layoutVars, pipeVars, validVars, runVars, invokeVars, cleanVars, bcastVars, wfVars>>

-----------------------------------------------------------------------------
(* Bounds of the model *)

\* largest column position handed to col_letter (703 is the first 3-letter label)
MaxCol == 730
\* col_letter is also called with 0 and with -1 .. -MaxNeg
MaxNeg == 2
\* cap on the label length built by a col_letter loop that does not end
MaxLabelLen == 4
\* longest generated formula text
MaxFormulaLen == 4
\* longest generated column name
MaxNameLen == 3
\* most columns of a generated column map
MaxMapCols == 2
\* most stages of a generated sheet
MaxStages == 2
\* most rules of a generated formula plan
MaxRules == 3
\* most sheets of a generated flow
MaxSheets == 2
\* longest raw name handed to a name validator
MaxRawLen == 3
\* largest MAX_RETRIES the environment sets
MaxRetriesSetting == 4
\* longest response text between the fences
MaxBodyLen == 4
\* most WebSocket clients of the server
NumSockets == 3
\* most create_workflow requests in progress together
NumRequests == 2

-----------------------------------------------------------------------------
\* state flow before the structure phase has stored a schema
NoFlow == [sheets |-> <<>>, present |-> FALSE]

-----------------------------------------------------------------------------
(* Characters *)

Upper == <<"A","B","C","D","E","F","G","H","I","J","K","L","M",
           "N","O","P","Q","R","S","T","U","V","W","X","Y","Z">>
Lower == {"a","b","c","d","e","f","g","h","i","j","k","l","m",
          "n","o","p","q","r","s","t","u","v","w","x","y","z"}
DigitChars == <<"0","1","2","3","4","5","6","7","8","9">>
UpperSet == {Upper[i] : i \in 1..26}
DigitSet == {DigitChars[i] : i \in 1..10}

\* Python's chr for the codes of the capital letters (65 = "A")
chr(code) == Upper[code - 64]

\* the regex class \w
IsWordChar(c) == c \in UpperSet \cup Lower \cup DigitSet \cup {"_"}
\* the regex class \s
IsSpaceChar(c) == c \in {" ", "\n"}

\* Python's divmod for a positive divisor (floor division, remainder >= 0)
divmod(a, b) == <<a \div b, a % b>>

\* str(n) of a non-negative integer
RECURSIVE str(_)
str(n) == IF n < 10 THEN <<DigitChars[n + 1]>>
          ELSE str(n \div 10) \o <<DigitChars[(n % 10) + 1]>>

-----------------------------------------------------------------------------
(* Column addressing: col_letter (main.py) and _col_letter (main_cli.py),     *)
(* the same code.                                                          *)

\* a loop body with the off-by-one of a plain base-26 conversion
ColLetterBodyNoShift(idx, res) ==
    LET dm == divmod(idx, 26)
    IN  <<dm[1], <<chr(65 + dm[2])>> \o res>>

\* one pass of the loop body: index, rem = divmod(index - 1, 26);
\* result = chr(65 + rem) + result
ColLetterBody(idx, res) ==
    LET dm == divmod(idx - 1, 26)
    IN  <<dm[1], <<chr(65 + dm[2])>> \o res>>

\* col_letter as a function, for the callers that pass a position >= 1
RECURSIVE col_letter_loop(_, _)
col_letter_loop(idx, res) ==
    IF idx = 0 THEN res
    ELSE LET s == ColLetterBody(idx, res) IN col_letter_loop(s[1], s[2])

col_letter(i) == col_letter_loop(i, <<>>)

InitAddr ==
    /\ cl_arg \in (0 - MaxNeg)..MaxCol
    /\ index = cl_arg
    /\ result = <<>>
    /\ cl_pc = "loop"
    /\ tf_formula = <<>>
    /\ tf_col_map = <<>>
    /\ tf_row = 0
    /\ tf_out = <<>>
    /\ tf_pc = "idle"
    /\ ls_sheet = [name |-> <<>>, columns |-> <<>>, stages |-> <<>>]
    /\ ls_values = <<>>
    /\ ls_requests = <<>>
    /\ ls_stage_names_row = <<>>
    /\ ls_stage_ranges = <<>>
    /\ ls_computed = <<>>
    /\ ls_pc = "idle"
    /\ pl_pipeline = "none"
    /\ pl_flow = NoFlow
    /\ pl_llm_plan = <<>>
    /\ pl_plan = <<>>
    /\ pl_errors = <<>>
    /\ pl_writes = <<>>
    /\ pl_sheet_requests = <<>>
    /\ pl_values = <<>>
    /\ pl_format_requests = <<>>
    /\ pl_warnings = <<>>
    /\ pl_log = <<>>
    /\ vn_kind = "none"
    /\ vn_raw = <<>>
    /\ vn_out = <<>>
    /\ vn_pc = "idle"
    /\ pl_pc = "idle"
    /\ pl_trace = <<>>
    /\ pl_llm_calls = 0
    /\ pl_remote = <<>>
    /\ rr_values = <<>>
    /\ rr_format_requests = <<>>
    /\ rr_writes = <<>>
    /\ iv_max = 0
    /\ iv_attempt = 0
    /\ iv_calls = <<>>
    /\ iv_result = <<>>
    /\ iv_pc = "idle"
    /\ jc_content = <<>>
    /\ jc_out = <<>>
    /\ jc_pc = "idle"
    /\ bc_conns = <<>>
    /\ bc_index = 0
    /\ bc_cur = 0
    /\ bc_sends = <<>>
    /\ bc_stayed = {}
    /\ bc_closed = {}
    /\ bc_pc = "idle"
    /\ wf_pc = <<>>
    /\ wf_broadcasts = <<>>
    /\ wf_response = <<>>

\* while index: one iteration
ColLetterStep ==
    /\ cl_pc = "loop"
    /\ index # 0
    /\ Len(result) < MaxLabelLen
    /\ LET s == ColLetterBody(index, result)
       IN  /\ index' = s[1]
           /\ result' = s[2]
    /\ UNCHANGED <<cl_arg, cl_pc, transVars, layoutVars, pipeVars, validVars, runVars, invokeVars, cleanVars, bcastVars, wfVars>>

\* the loop condition is false: return result
ColLetterReturn ==
    /\ cl_pc = "loop"
    /\ index = 0
    /\ cl_pc' = "done"
    /\ UNCHANGED <<cl_arg, index, result, transVars, layoutVars, pipeVars, validVars, runVars, invokeVars, cleanVars, bcastVars, wfVars>>

NextAddr == ColLetterStep \/ ColLetterReturn

-----------------------------------------------------------------------------
(* Formula translation: translate_formula (main.py)                         *)

\* \b at offset p (0 .. Len(text)) of text: exactly one side is a word character
AtWordBoundary(text, p) ==
    LET before == p > 0 /\ IsWordChar(text[p])
        after == p < Len(text) /\ IsWordChar(text[p + 1])
    IN  before # after

\* the pattern \b<pat>\b matches at offset p of text
MatchAt(text, p, pat) ==
    /\ p + Len(pat) <= Len(text)
    /\ SubSeq(text, p + 1, p + Len(pat)) = pat
    /\ AtWordBoundary(text, p)
    /\ AtWordBoundary(text, p + Len(pat))

\* re.sub(rf"\b{re.escape(pat)}\b", repl, text) from offset p on: leftmost
\* matches, not overlapping, the replacement never scanned again
RECURSIVE re_sub_from(_, _, _, _)
re_sub_from(text, pat, repl, p) ==
    IF p >= Len(text) THEN <<>>
    ELSE IF MatchAt(text, p, pat)
         THEN repl \o re_sub_from(text, pat, repl, p + Len(pat))
         ELSE <<text[p + 1]>> \o re_sub_from(text, pat, repl, p + 1)

re_sub(pat, repl, text) == re_sub_from(text, pat, repl, 0)

\* for col, letter in col_map.items(): formula = re.sub(...), from entry k on
RECURSIVE translate_from(_, _, _, _)
translate_from(formula, col_map, row, k) ==
    IF k > Len(col_map) THEN formula
    ELSE translate_from(
             re_sub(col_map[k].col, col_map[k].letter \o str(row), formula),
             col_map, row, k + 1)

translate_formula(formula, col_map, row) == translate_from(formula, col_map, row, 1)

\* dict[key] = value on an insertion-ordered dict kept as a sequence of entries
DictSet(d, key, value) ==
    IF \E i \in 1..Len(d) : d[i].col = key
    THEN [i \in 1..Len(d) |-> IF d[i].col = key THEN [col |-> key, letter |-> value]
                                ELSE d[i]]
    ELSE Append(d, [col |-> key, letter |-> value])

\* {col: col_letter(i + 1) for i, col in enumerate(names)}, names taken up to k
RECURSIVE column_map_upto(_, _)
column_map_upto(names, k) ==
    IF k = 0 THEN <<>>
    ELSE DictSet(column_map_upto(names, k - 1), names[k], col_letter(k))

\* one sheet's entry of build_column_map
sheet_column_map(names) == column_map_upto(names, Len(names))

-----------------------------------------------------------------------------
(* Name sanitisation: ColumnInfo.validate_name (main_cli.py)               *)

RECURSIVE lstrip(_)
lstrip(s) == IF s # <<>> /\ IsSpaceChar(s[1]) THEN lstrip(Tail(s)) ELSE s

RECURSIVE rstrip(_)
rstrip(s) == IF s # <<>> /\ IsSpaceChar(s[Len(s)])
             THEN rstrip(SubSeq(s, 1, Len(s) - 1)) ELSE s

strip(s) == rstrip(lstrip(s))

\* re.sub(r'[^\w\s-]', '', v)
KeepNameChar(c) == IsWordChar(c) \/ IsSpaceChar(c) \/ c = "-"
sanitize(v) == SelectSeq(v, KeepNameChar)

\* the validator raises on an input that is empty after strip()
validate_name_accepts(v) == Len(strip(v)) # 0
\* and otherwise stores re.sub(r'[^\w\s-]', '', v).strip()
validate_name(v) == strip(sanitize(v))

-----------------------------------------------------------------------------
(* Inputs of the translation component *)

SeqsUpTo(S, n) == UNION {[1..k -> S] : k \in 0..n}

\* characters of the generated formulas and names: two word characters (a
\* letter and a digit, as in the cell references the translation writes) and
\* the hyphen, which is no word character and is kept by the name validators
GenChars == {"A", "5", "-", " "}

Total == <<"T","o","t","a","l">>
TotalAmount == <<"T","o","t","a","l"," ","A","m","o","u","n","t">>
TotalFormula == TotalAmount \o <<" ","+"," ">> \o Total
\* a column name that reads like a cell address
CellLikeName == <<"B", "5">>

GenNames == {n \in SeqsUpTo(GenChars, MaxNameLen) :
                 n # <<>> /\ validate_name_accepts(n) /\ validate_name(n) = n}

NameLists ==
    {l \in SeqsUpTo(GenNames, MaxMapCols) :
         l # <<>> /\ \A i, j \in 1..Len(l) : i # j => l[i] # l[j]}
    \cup {<<Total, TotalAmount>>, <<TotalAmount, Total>>}
    \cup {<<CellLikeName, <<"A">> >>}

Formulas == SeqsUpTo(GenChars, MaxFormulaLen) \cup {TotalFormula}

InitTranslate ==
    /\ tf_formula \in Formulas
    /\ \E names \in NameLists : tf_col_map = sheet_column_map(names)
    /\ tf_row = 5
    /\ tf_out = <<>>
    /\ tf_pc = "call"
    /\ cl_arg = 0
    /\ index = 0
    /\ result = <<>>
    /\ cl_pc = "idle"
    /\ ls_sheet = [name |-> <<>>, columns |-> <<>>, stages |-> <<>>]
    /\ ls_values = <<>>
    /\ ls_requests = <<>>
    /\ ls_stage_names_row = <<>>
    /\ ls_stage_ranges = <<>>
    /\ ls_computed = <<>>
    /\ ls_pc = "idle"
    /\ pl_pipeline = "none"
    /\ pl_flow = NoFlow
    /\ pl_llm_plan = <<>>
    /\ pl_plan = <<>>
    /\ pl_errors = <<>>
    /\ pl_writes = <<>>
    /\ pl_sheet_requests = <<>>
    /\ pl_values = <<>>
    /\ pl_format_requests = <<>>
    /\ pl_warnings = <<>>
    /\ pl_log = <<>>
    /\ vn_kind = "none"
    /\ vn_raw = <<>>
    /\ vn_out = <<>>
    /\ vn_pc = "idle"
    /\ pl_pc = "idle"
    /\ pl_trace = <<>>
    /\ pl_llm_calls = 0
    /\ pl_remote = <<>>
    /\ rr_values = <<>>
    /\ rr_format_requests = <<>>
    /\ rr_writes = <<>>
    /\ iv_max = 0
    /\ iv_attempt = 0
    /\ iv_calls = <<>>
    /\ iv_result = <<>>
    /\ iv_pc = "idle"
    /\ jc_content = <<>>
    /\ jc_out = <<>>
    /\ jc_pc = "idle"
    /\ bc_conns = <<>>
    /\ bc_index = 0
    /\ bc_cur = 0
    /\ bc_sends = <<>>
    /\ bc_stayed = {}
    /\ bc_closed = {}
    /\ bc_pc = "idle"
    /\ wf_pc = <<>>
    /\ wf_broadcasts = <<>>
    /\ wf_response = <<>>

\* the call translate_formula(formula, col_map, row)
Translate ==
    /\ tf_pc = "call"
    /\ tf_out' = translate_formula(tf_formula, tf_col_map, tf_row)
    /\ tf_pc' = "done"
    /\ UNCHANGED <<tf_formula, tf_col_map, tf_row, addrVars, layoutVars, pipeVars, validVars, runVars, invokeVars, cleanVars, bcastVars, wfVars>>

NextTranslate == Translate

-----------------------------------------------------------------------------
(* Stage header layout: GoogleSheetsManager._add_headers_with_stage_format  *)
(* (main_cli.py)                                                           *)

\* Python's None where an integer may stand (an index, a stage_number)
None == 0 - 1

\* WorkflowStage.validate_stage_name: raises on an input empty after strip(),
\* otherwise stores re.sub(r'[^\w\s-]', '', v).strip()
validate_stage_name_accepts(v) == Len(strip(v)) # 0
validate_stage_name(v) == strip(sanitize(v))

\* STAGE_COLORS, the components in hundredths
STAGE_COLORS == <<
    [red |-> 90, green |-> 85, blue |-> 85],
    [red |-> 85, green |-> 90, blue |-> 85],
    [red |-> 85, green |-> 85, blue |-> 90],
    [red |-> 95, green |-> 90, blue |-> 75],
    [red |-> 90, green |-> 85, blue |-> 90],
    [red |-> 85, green |-> 95, blue |-> 90],
    [red |-> 95, green |-> 85, blue |-> 80],
    [red |-> 90, green |-> 90, blue |-> 85] >>

\* SheetSchema.get_column_names
get_column_names(sheet) == [i \in 1..Len(sheet.columns) |-> sheet.columns[i].name]

\* col_name in col_indices
InColIndices(names, col_name) == \E i \in 1..Len(names) : names[i] = col_name

\* col_indices[col_name] of {name: i for i, name in enumerate(column_names)}:
\* 0-based, the last position of a repeated name
col_indices(names, col_name) ==
    (CHOOSE i \in 1..Len(names) :
         names[i] = col_name /\ \A j \in (i + 1)..Len(names) : names[j] # col_name) - 1

\* if start_idx is None or idx < start_idx: start_idx = idx
\* if end_idx is None or idx > end_idx: end_idx = idx
Widen(se, idx) ==
    [start |-> IF se.start = None \/ idx < se.start THEN idx ELSE se.start,
     end |-> IF se.end = None \/ idx > se.end THEN idx ELSE se.end]

\* for col_name in stage.columns: ..., over the first k names of the list
RECURSIVE scan_explicit(_, _, _)
scan_explicit(stage_columns, names, k) ==
    IF k = 0 THEN [start |-> None, end |-> None]
    ELSE LET prev == scan_explicit(stage_columns, names, k - 1)
         IN  IF InColIndices(names, stage_columns[k])
             THEN Widen(prev, col_indices(names, stage_columns[k]))
             ELSE prev

\* for col in sheet.columns: if col.stage_number == stage.stage_number: ...,
\* over the first k columns
RECURSIVE scan_tagged(_, _, _, _)
scan_tagged(columns, names, stage_number, k) ==
    IF k = 0 THEN [start |-> None, end |-> None]
    ELSE LET prev == scan_tagged(columns, names, stage_number, k - 1)
         IN  IF columns[k].stage_number # None
                  /\ columns[k].stage_number = stage_number
                  /\ InColIndices(names, columns[k].name)
             THEN Widen(prev, col_indices(names, columns[k].name))
             ELSE prev

\* a stage resolution that scans the tagged columns whether or not the explicit
\* list matched
resolve_stage_always_tagged(sheet, stage) ==
    LET names == get_column_names(sheet)
        e == scan_explicit(stage.columns, names, Len(stage.columns))
        t == scan_tagged(sheet.columns, names, stage.stage_number, Len(sheet.columns))
    IN  IF t.start = None THEN e
        ELSE IF e.start = None THEN t
        ELSE Widen(Widen(e, t.start), t.end)

\* a stage resolution that gives an unmatched stage the first column
resolve_stage_default_first(sheet, stage) ==
    LET names == get_column_names(sheet)
        e == scan_explicit(stage.columns, names, Len(stage.columns))
        t == scan_tagged(sheet.columns, names, stage.stage_number, Len(sheet.columns))
    IN  IF e.start # None THEN e
        ELSE IF t.start # None THEN t
        ELSE [start |-> 0, end |-> 0]

\* one pass of the stage loop up to `if start_idx is not None`: the explicit
\* list, and the tagged columns only if start_idx is still None
resolve_stage(sheet, stage) ==
    LET names == get_column_names(sheet)
        e == scan_explicit(stage.columns, names, Len(stage.columns))
    IN  IF e.start = None
        THEN scan_tagged(sheet.columns, names, stage.stage_number, Len(sheet.columns))
        ELSE e

\* stage_ranges[stage_number] = {...} on the insertion-ordered dict
RangeSet(ranges, num, se, name) ==
    LET entry == [num |-> num, start |-> se.start, end |-> se.end, name |-> name]
    IN  IF \E i \in 1..Len(ranges) : ranges[i].num = num
        THEN [i \in 1..Len(ranges) |-> IF ranges[i].num = num THEN entry ELSE ranges[i]]
        ELSE Append(ranges, entry)

\* the stage loop over the first k stages: stage_names_row, stage_ranges and
\* the (start_idx, end_idx) each pass ended with
RECURSIVE stage_loop(_, _)
stage_loop(sheet, k) ==
    IF k = 0
    THEN [row |-> [i \in 1..Len(sheet.columns) |-> <<>>],
          ranges |-> <<>>,
          computed |-> <<>>]
    ELSE LET prev == stage_loop(sheet, k - 1)
             stage == sheet.stages[k]
             se == resolve_stage(sheet, stage)
         IN  IF se.start # None /\ se.end # None
             THEN [row |-> [prev.row EXCEPT ![se.start + 1] = stage.stage_name],
                   ranges |-> RangeSet(prev.ranges, stage.stage_number, se,
                                       stage.stage_name),
                   computed |-> Append(prev.computed, se)]
             ELSE [prev EXCEPT !.computed = Append(prev.computed, se)]

\* any(stage_names_row)
any(row) == \E i \in 1..Len(row) : row[i] # <<>>

\* color = STAGE_COLORS[(stage_num - 1) % len(STAGE_COLORS)]
stage_color(stage_num) == STAGE_COLORS[((stage_num - 1) % Len(STAGE_COLORS)) + 1]

\* the requests of one stage_ranges item: the merge of row 2 if end > start,
\* then the color of rows 2 and 3
stage_item_requests(info) ==
    (IF info.end > info.start
     THEN <<[kind |-> "mergeCells", startRowIndex |-> 1, endRowIndex |-> 2,
             startColumnIndex |-> info.start, endColumnIndex |-> info.end + 1]>>
     ELSE <<>>)
    \o <<[kind |-> "repeatCell", startRowIndex |-> 1, endRowIndex |-> 3,
          startColumnIndex |-> info.start, endColumnIndex |-> info.end + 1,
          backgroundColor |-> stage_color(info.num)]>>

\* for stage_num, info in stage_ranges.items(): ..., from item k on
RECURSIVE stage_requests(_, _)
stage_requests(ranges, k) ==
    IF k > Len(ranges) THEN <<>>
    ELSE stage_item_requests(ranges[k]) \o stage_requests(ranges, k + 1)

header_format(startRow) ==
    [kind |-> "repeatCell", startRowIndex |-> startRow, endRowIndex |-> startRow + 1,
     header |-> TRUE]

freeze(n) == [kind |-> "updateSheetProperties", frozenRowCount |-> n]

\* a stage test that asks for a stage that resolved to a range
has_stages_resolved(sheet) == stage_loop(sheet, Len(sheet.stages)).ranges # <<>>

\* has_stages = bool(sheet.stages)
has_stages(sheet) == Len(sheet.stages) > 0

\* a header write whose row depends on what was written to the spreadsheet
\* before
header_values_by_history(sheet) ==
    <<[range |-> <<sheet.name, IF pl_writes = <<>> THEN "A1" ELSE "A3">>,
       values |-> get_column_names(sheet)]>>

\* the values().update calls of the handler, in order
header_values(sheet) ==
    LET loop == stage_loop(sheet, Len(sheet.stages))
    IN  IF has_stages(sheet)
        THEN <<[range |-> <<sheet.name, "A3">>, values |-> get_column_names(sheet)]>>
             \o (IF any(loop.row)
                 THEN <<[range |-> <<sheet.name, "A2">>, values |-> loop.row]>>
                 ELSE <<>>)
        ELSE <<[range |-> <<sheet.name, "A1">>, values |-> get_column_names(sheet)]>>

\* the requests list handed to batchUpdate
format_requests(sheet) ==
    LET loop == stage_loop(sheet, Len(sheet.stages))
    IN  IF has_stages(sheet)
        THEN <<header_format(2)>>
             \o (IF any(loop.row) THEN stage_requests(loop.ranges, 1) ELSE <<>>)
             \o <<freeze(3)>>
        ELSE <<header_format(0), freeze(1)>>

-----------------------------------------------------------------------------
(* Inputs of the layout component *)

\* stage numbers of the generated stages: in order, with a gap, and one above
\* the palette size
StageNums == {1, 2, 9}

\* stage numbers the generated columns are tagged with
TagNums == {1, 2}

\* stage names as the model returns them, before validation
RawStageNames == {<<"P">>, <<"Q">>, <<"!">>}

\* the columns of the generated sheet, left to right
LayoutColNames == << <<"c", "1">>, <<"c", "2">>, <<"c", "3">> >>

\* a column name no sheet has
ForeignCol == <<"z">>

\* the explicit column lists of the generated stages: empty, one name, two
\* names out of order, a name the sheet lacks, and a mix
StageColumnLists ==
    {<<>>,
     <<LayoutColNames[2]>>,
     <<LayoutColNames[2], LayoutColNames[1]>>,
     <<ForeignCol>>,
     <<LayoutColNames[3], ForeignCol>>}

ColumnLists ==
    {cols \in [1..Len(LayoutColNames) ->
                  [name : {LayoutColNames[i] : i \in 1..Len(LayoutColNames)},
                   stage_number : {None} \cup TagNums]] :
         \A i \in 1..Len(LayoutColNames) : cols[i].name = LayoutColNames[i]}

StageValues ==
    {[stage_number |-> n, stage_name |-> validate_stage_name(raw), columns |-> cs] :
         n \in StageNums,
         raw \in {r \in RawStageNames : validate_stage_name_accepts(r)},
         cs \in StageColumnLists}

\* the stage lists handed to the layout: stage numbers are unique within a
\* sheet, in any order
StageLists ==
    {ss \in SeqsUpTo(StageValues, MaxStages) :
         \A i, j \in 1..Len(ss) : i # j => ss[i].stage_number # ss[j].stage_number}

LayoutSheets ==
    [name : {<<"S">>}, columns : ColumnLists, stages : StageLists]

InitLayout ==
    /\ ls_sheet \in LayoutSheets
    /\ ls_values = <<>>
    /\ ls_requests = <<>>
    /\ ls_stage_names_row = <<>>
    /\ ls_stage_ranges = <<>>
    /\ ls_computed = <<>>
    /\ ls_pc = "call"
    /\ cl_arg = 0
    /\ index = 0
    /\ result = <<>>
    /\ cl_pc = "idle"
    /\ tf_formula = <<>>
    /\ tf_col_map = <<>>
    /\ tf_row = 0
    /\ tf_out = <<>>
    /\ tf_pc = "idle"
    /\ pl_pipeline = "none"
    /\ pl_flow = NoFlow
    /\ pl_llm_plan = <<>>
    /\ pl_plan = <<>>
    /\ pl_errors = <<>>
    /\ pl_writes = <<>>
    /\ pl_sheet_requests = <<>>
    /\ pl_values = <<>>
    /\ pl_format_requests = <<>>
    /\ pl_warnings = <<>>
    /\ pl_log = <<>>
    /\ vn_kind = "none"
    /\ vn_raw = <<>>
    /\ vn_out = <<>>
    /\ vn_pc = "idle"
    /\ pl_pc = "idle"
    /\ pl_trace = <<>>
    /\ pl_llm_calls = 0
    /\ pl_remote = <<>>
    /\ rr_values = <<>>
    /\ rr_format_requests = <<>>
    /\ rr_writes = <<>>
    /\ iv_max = 0
    /\ iv_attempt = 0
    /\ iv_calls = <<>>
    /\ iv_result = <<>>
    /\ iv_pc = "idle"
    /\ jc_content = <<>>
    /\ jc_out = <<>>
    /\ jc_pc = "idle"
    /\ bc_conns = <<>>
    /\ bc_index = 0
    /\ bc_cur = 0
    /\ bc_sends = <<>>
    /\ bc_stayed = {}
    /\ bc_closed = {}
    /\ bc_pc = "idle"
    /\ wf_pc = <<>>
    /\ wf_broadcasts = <<>>
    /\ wf_response = <<>>

\* the call _add_headers_with_stage_format(spreadsheet_id, sheet), the sheet
\* being one the spreadsheet has (sheet_id is found)
AddHeadersWithStageFormat ==
    /\ ls_pc = "call"
    /\ LET loop == stage_loop(ls_sheet, Len(ls_sheet.stages))
       IN  /\ ls_stage_names_row' = (IF has_stages(ls_sheet) THEN loop.row ELSE <<>>)
           /\ ls_stage_ranges' = (IF has_stages(ls_sheet) THEN loop.ranges ELSE <<>>)
           /\ ls_computed' = (IF has_stages(ls_sheet) THEN loop.computed ELSE <<>>)
    /\ ls_values' = header_values(ls_sheet)
    /\ ls_requests' = format_requests(ls_sheet)
    /\ ls_pc' = "done"
    /\ UNCHANGED <<ls_sheet, addrVars, transVars, pipeVars, validVars, runVars, invokeVars, cleanVars, bcastVars, wfVars>>

NextLayout == AddHeadersWithStageFormat

-----------------------------------------------------------------------------
(* Formula validation and application in the three pipelines: main          *)
(* (main.py), main (main_cli.py) and FMSAgent.execute (fms_agent.py)        *)

\* next((s for s in flow.sheets if s.name == sheet_name), None): the position
\* of the first sheet of that name, 0 for None
find_sheet(flow, sheet_name) ==
    IF \E i \in 1..Len(flow.sheets) : flow.sheets[i].name = sheet_name
    THEN CHOOSE i \in 1..Len(flow.sheets) :
             /\ flow.sheets[i].name = sheet_name
             /\ \A j \in 1..(i - 1) : flow.sheets[j].name # sheet_name
    ELSE 0

\* a validation that checks the sheet only
formula_accepted_sheet_only(flow, formula) ==
    find_sheet(flow, formula.sheet) # 0

\* formula_agent (main_cli.py), one pass of the validation loop: the rule is
\* appended to validated_formulas
formula_accepted(flow, formula) ==
    LET i == find_sheet(flow, formula.sheet)
    IN  /\ i # 0
        /\ InColIndices(get_column_names(flow.sheets[i]), formula.target_column)

\* validated_formulas after the first k rules
RECURSIVE validated_formulas(_, _, _)
validated_formulas(flow, formulas, k) ==
    IF k = 0 THEN <<>>
    ELSE IF formula_accepted(flow, formulas[k])
         THEN Append(validated_formulas(flow, formulas, k - 1), formulas[k])
         ELSE validated_formulas(flow, formulas, k - 1)

\* build_column_map (main.py): the dict sheet name -> column map, a sheet of a
\* repeated name replacing the earlier one; here the entry of one sheet name,
\* <<>> with present FALSE if the name is no key
build_column_map(flow, sheet_name) ==
    IF \E i \in 1..Len(flow.sheets) : flow.sheets[i].name = sheet_name
    THEN LET i == CHOOSE i \in 1..Len(flow.sheets) :
                      /\ flow.sheets[i].name = sheet_name
                      /\ \A j \in (i + 1)..Len(flow.sheets) :
                             flow.sheets[j].name # sheet_name
         IN  [present |-> TRUE,
              columns |-> sheet_column_map(get_column_names(flow.sheets[i]))]
    ELSE [present |-> FALSE, columns |-> <<>>]

InColumnMap(col_map, col) == \E i \in 1..Len(col_map) : col_map[i].col = col
ColumnMapGet(col_map, col) ==
    (CHOOSE e \in {col_map[i] : i \in 1..Len(col_map)} : e.col = col).letter

\* a write that stores the text it sends back into the rule
FormulaWriteInPlace(rule, letter, text) ==
    [sheet |-> rule.sheet, cell |-> letter \o str(rule.start_row), value |-> text,
     rule |-> [rule EXCEPT !.formula = text]]

\* the write of one formula: values().update(range=..., body={"values": [[text]]});
\* rule is the rule object as the loop pass leaves it
FormulaWrite(rule, letter, text) ==
    [sheet |-> rule.sheet, cell |-> letter \o str(rule.start_row), value |-> text,
     rule |-> rule]

\* apply_formulas (main.py): the writes issued for the first k rules
RECURSIVE main_apply_formulas(_, _, _)
main_apply_formulas(flow, formulas, k) ==
    IF k = 0 THEN <<>>
    ELSE LET prev == main_apply_formulas(flow, formulas, k - 1)
             rule == formulas[k]
             entry == build_column_map(flow, rule.sheet)
         IN  IF ~entry.present THEN prev
             ELSE IF ~InColumnMap(entry.columns, rule.target_column) THEN prev
             ELSE Append(prev,
                         FormulaWrite(rule,
                                      ColumnMapGet(entry.columns, rule.target_column),
                                      translate_formula(rule.formula, entry.columns,
                                                        rule.start_row)))

\* names.index(col_name) + 1: the first position of the name
list_index(names, col_name) ==
    CHOOSE i \in 1..Len(names) :
        names[i] = col_name /\ \A j \in 1..(i - 1) : names[j] # col_name

\* GoogleSheetsManager._get_column_letter
get_column_letter(col_name, flow, sheet_name) ==
    LET i == find_sheet(flow, sheet_name)
    IN  IF i = 0 THEN <<"A">>
        ELSE LET col_names == get_column_names(flow.sheets[i])
             IN  IF InColIndices(col_names, col_name)
                 THEN col_letter(list_index(col_names, col_name))
                 ELSE <<"A">>

\* GoogleSheetsManager.apply_formulas (main_cli.py): the writes issued for the
\* first k rules
RECURSIVE manager_apply_formulas(_, _, _)
manager_apply_formulas(flow, formulas, k) ==
    IF k = 0 THEN <<>>
    ELSE Append(manager_apply_formulas(flow, formulas, k - 1),
                FormulaWrite(formulas[k],
                             get_column_letter(formulas[k].target_column, flow,
                                               formulas[k].sheet),
                             formulas[k].formula))

\* a skip message: the sheet name, the column name and the column list the
\* text holds, each <<>> when the text does not hold it
SkipMessage(kind, sheet, column, available) ==
    [kind |-> kind, sheet |-> sheet, column |-> column, available |-> available]

\* formula_agent (main_cli.py): the logger.warning calls of the validation
\* loop over the first k rules
RECURSIVE validation_log(_, _, _)
validation_log(flow, formulas, k) ==
    IF k = 0 THEN <<>>
    ELSE LET prev == validation_log(flow, formulas, k - 1)
             formula == formulas[k]
             i == find_sheet(flow, formula.sheet)
         IN  IF i = 0
             THEN Append(prev, SkipMessage("sheet_not_found", <<formula.sheet>>,
                                           <<>>, <<>>))
             ELSE IF ~InColIndices(get_column_names(flow.sheets[i]),
                                   formula.target_column)
             THEN Append(prev, SkipMessage("column_not_found", <<>>,
                                           <<formula.target_column>>, <<>>))
             ELSE prev

\* col_map[rule.sheet].keys(): the names in insertion order
column_map_keys(col_map) == [i \in 1..Len(col_map) |-> col_map[i].col]

\* apply_formulas (main.py): the skip messages printed for the first k rules;
\* the two prints of a missing column are one message
RECURSIVE main_skip_log(_, _, _)
main_skip_log(flow, formulas, k) ==
    IF k = 0 THEN <<>>
    ELSE LET prev == main_skip_log(flow, formulas, k - 1)
             rule == formulas[k]
             entry == build_column_map(flow, rule.sheet)
         IN  IF ~entry.present
             THEN Append(prev, SkipMessage("sheet_not_found", <<rule.sheet>>,
                                           <<>>, <<>>))
             ELSE IF ~InColumnMap(entry.columns, rule.target_column)
             THEN Append(prev, SkipMessage("column_not_found", <<rule.sheet>>,
                                           <<rule.target_column>>,
                                           <<column_map_keys(entry.columns)>>))
             ELSE prev

\* a sheet creation that stops after the first sheet
add_sheet_requests_first_only(flow) ==
    [i \in 1..1 |-> [kind |-> "addSheet", title |-> flow.sheets[i].name]]

\* the addSheet requests, one per item of flow.sheets
add_sheet_requests(flow) ==
    [i \in 1..Len(flow.sheets) |-> [kind |-> "addSheet", title |-> flow.sheets[i].name]]

\* add_sheets_and_headers (main.py): the header writes, one per item of
\* flow.sheets
main_header_values(flow) ==
    [i \in 1..Len(flow.sheets) |->
        [range |-> <<flow.sheets[i].name, "A1">>,
         values |-> get_column_names(flow.sheets[i])]]

\* setup_sheets (main_cli.py): the values().update calls of
\* _add_headers_with_stage_format over the first k sheets
RECURSIVE setup_header_values(_, _)
setup_header_values(flow, k) ==
    IF k = 0 THEN <<>>
    ELSE setup_header_values(flow, k - 1) \o header_values(flow.sheets[k])

\* setup_sheets (main_cli.py): the formatting batchUpdate of each sheet
setup_format_requests(flow) ==
    [i \in 1..Len(flow.sheets) |-> format_requests(flow.sheets[i])]

-----------------------------------------------------------------------------
(* Inputs of the pipelines: what the model's responses parse to *)

Pipelines == {"main", "cli", "fms"}

PlSheetNames == {<<"S">>, <<"T">>}
PlColNames == {<<"p">>, <<"q">>}

NoRepeat(seq) == \A i, j \in 1..Len(seq) : i # j => seq[i] # seq[j]

PlColumnLists ==
    {[i \in 1..Len(names) |-> [name |-> names[i], stage_number |-> None]] :
         names \in {n \in SeqsUpTo(PlColNames, Cardinality(PlColNames)) :
                        n # <<>> /\ NoRepeat(n)}}

\* a sheet with one stage over its first column
StagedSheet ==
    [name |-> <<"S">>,
     columns |-> <<[name |-> <<"p">>, stage_number |-> None],
                   [name |-> <<"q">>, stage_number |-> None]>>,
     stages |-> <<[stage_number |-> 1, stage_name |-> <<"P">>,
                   columns |-> << <<"p">> >>]>>]

PlSheets ==
    [name : PlSheetNames, columns : PlColumnLists, stages : {<<>>}] \cup {StagedSheet}

\* the schemas: sheet names unique within a schema
Flows ==
    {[sheets |-> ss, present |-> TRUE] :
         ss \in {x \in SeqsUpTo(PlSheets, MaxSheets) :
                     x # <<>> /\ NoRepeat([i \in 1..Len(x) |-> x[i].name])}}

\* a rule's start row and formula text
PlFormulas == {[start_row |-> 2, formula |-> <<"=", "p">>],
               [start_row |-> 4, formula |-> <<"q">>]}

Rules ==
    {[sheet |-> sh, target_column |-> c, start_row |-> f.start_row,
      formula |-> f.formula] :
         sh \in PlSheetNames, c \in PlColNames, f \in PlFormulas}

Plans == SeqsUpTo(Rules, MaxRules)

InitPipeline ==
    /\ pl_pipeline \in Pipelines
    /\ pl_flow = NoFlow
    /\ pl_llm_plan = <<>>
    /\ pl_plan = <<>>
    /\ pl_errors = <<>>
    /\ pl_writes = <<>>
    /\ pl_sheet_requests = <<>>
    /\ pl_values = <<>>
    /\ pl_format_requests = <<>>
    /\ pl_warnings = <<>>
    /\ pl_log = <<>>
    /\ vn_kind = "none"
    /\ vn_raw = <<>>
    /\ vn_out = <<>>
    /\ vn_pc = "idle"
    /\ pl_pc = "structure"
    /\ cl_arg = 0
    /\ index = 0
    /\ result = <<>>
    /\ cl_pc = "idle"
    /\ tf_formula = <<>>
    /\ tf_col_map = <<>>
    /\ tf_row = 0
    /\ tf_out = <<>>
    /\ tf_pc = "idle"
    /\ ls_sheet = [name |-> <<>>, columns |-> <<>>, stages |-> <<>>]
    /\ ls_values = <<>>
    /\ ls_requests = <<>>
    /\ ls_stage_names_row = <<>>
    /\ ls_stage_ranges = <<>>
    /\ ls_computed = <<>>
    /\ ls_pc = "idle"
    /\ pl_trace = <<>>
    /\ pl_llm_calls = 0
    /\ pl_remote = <<>>
    /\ rr_values = <<>>
    /\ rr_format_requests = <<>>
    /\ rr_writes = <<>>
    /\ iv_max = 0
    /\ iv_attempt = 0
    /\ iv_calls = <<>>
    /\ iv_result = <<>>
    /\ iv_pc = "idle"
    /\ jc_content = <<>>
    /\ jc_out = <<>>
    /\ jc_pc = "idle"
    /\ bc_conns = <<>>
    /\ bc_index = 0
    /\ bc_cur = 0
    /\ bc_sends = <<>>
    /\ bc_stayed = {}
    /\ bc_closed = {}
    /\ bc_pc = "idle"
    /\ wf_pc = <<>>
    /\ wf_broadcasts = <<>>
    /\ wf_response = <<>>

\* a main that goes on to the spreadsheet whatever the workflow returned
after_workflow_unchecked(errors) == "sheets"

\* main (main_cli.py) after workflow.invoke: `if final_state.get("errors"): return`,
\* otherwise the spreadsheet is created
after_workflow(errors) == IF errors # <<>> THEN "failed" ELSE "sheets"

\* structure_agent: the response parses to a schema, stored as state flow
StructureAgent ==
    /\ pl_pc = "structure"
    /\ \E flow \in Flows : pl_flow' = flow
    /\ pl_pc' = "formula"
    /\ pl_trace' = Append(pl_trace, "structure_ok")
    /\ pl_llm_calls' = pl_llm_calls + 1
    /\ UNCHANGED <<pl_pipeline, pl_llm_plan, pl_plan, pl_errors, pl_writes,
                   addrVars, transVars, layoutVars, validVars, outVars, pl_remote, rrVars, invokeVars, cleanVars, bcastVars, wfVars>>

\* structure_agent: the model call or the parse raises.  main_cli.py returns
\* {"errors": [...]} and the graph goes on to the formula node; main.py and
\* FMSAgent.execute let the exception end the run
StructureAgentFails ==
    /\ pl_pc = "structure"
    /\ IF pl_pipeline = "cli"
       THEN pl_errors' = <<"structure">> /\ pl_pc' = "formula"
       ELSE pl_errors' = pl_errors /\ pl_pc' = "failed"
    /\ pl_trace' = Append(pl_trace, "structure_failed")
    /\ pl_llm_calls' = pl_llm_calls + 1
    /\ UNCHANGED <<pl_pipeline, pl_flow, pl_llm_plan, pl_plan, pl_writes,
                   addrVars, transVars, layoutVars, validVars, outVars, pl_remote, rrVars, invokeVars, cleanVars, bcastVars, wfVars>>

\* formula_agent (main_cli.py) without a flow: returns the error, no model call
FormulaAgentNoFlow ==
    /\ pl_pc = "formula"
    /\ pl_pipeline = "cli"
    /\ pl_flow = NoFlow
    /\ pl_errors' = <<"No flow structure available">>
    /\ pl_pc' = after_workflow(pl_errors')
    /\ pl_trace' = Append(pl_trace, "formula_failed")
    /\ UNCHANGED <<pl_pipeline, pl_flow, pl_llm_plan, pl_plan, pl_writes,
                   addrVars, transVars, layoutVars, validVars, outVars, pl_llm_calls, pl_remote, rrVars, invokeVars, cleanVars, bcastVars, wfVars>>

\* formula_agent (main_cli.py): the response parses to a plan, the validation
\* loop runs and formulas.formulas = validated_formulas; the update returned
\* is {"formulas": formulas}, so state warnings stays as it was
CliFormulaAgent ==
    /\ pl_pc = "formula"
    /\ pl_pipeline = "cli"
    /\ pl_flow # NoFlow
    /\ \E plan \in Plans :
           /\ pl_llm_plan' = plan
           /\ pl_plan' = validated_formulas(pl_flow, plan, Len(plan))
           /\ pl_log' = pl_log \o validation_log(pl_flow, plan, Len(plan))
    /\ pl_pc' = after_workflow(pl_errors)
    /\ pl_trace' = Append(pl_trace, "formula_ok")
    /\ pl_llm_calls' = pl_llm_calls + 1
    /\ UNCHANGED <<pl_pipeline, pl_flow, pl_errors, pl_writes,
                   addrVars, transVars, layoutVars, validVars,
                   pl_sheet_requests, pl_values, pl_format_requests, pl_warnings, pl_remote, rrVars, invokeVars, cleanVars, bcastVars, wfVars>>

\* formula_agent (main.py) and FMSAgent.formula_agent: the response parses to
\* a plan, stored as it is
PlainFormulaAgent ==
    /\ pl_pc = "formula"
    /\ pl_pipeline \in {"main", "fms"}
    /\ \E plan \in Plans :
           /\ pl_llm_plan' = plan
           /\ pl_plan' = plan
    /\ pl_pc' = "sheets"
    /\ pl_trace' = Append(pl_trace, "formula_ok")
    /\ pl_llm_calls' = pl_llm_calls + 1
    /\ UNCHANGED <<pl_pipeline, pl_flow, pl_errors, pl_writes,
                   addrVars, transVars, layoutVars, validVars, outVars, pl_remote, rrVars, invokeVars, cleanVars, bcastVars, wfVars>>

\* formula_agent: the model call or the parse raises
FormulaAgentFails ==
    /\ pl_pc = "formula"
    /\ pl_flow # NoFlow
    /\ pl_errors' = (IF pl_pipeline = "cli" THEN <<"formula">> ELSE pl_errors)
    /\ pl_pc' = (IF pl_pipeline = "cli" THEN after_workflow(pl_errors') ELSE "failed")
    /\ pl_trace' = Append(pl_trace, "formula_failed")
    /\ pl_llm_calls' = pl_llm_calls + 1
    /\ UNCHANGED <<pl_pipeline, pl_flow, pl_llm_plan, pl_plan, pl_writes,
                   addrVars, transVars, layoutVars, validVars, outVars, pl_remote, rrVars, invokeVars, cleanVars, bcastVars, wfVars>>

\* create_spreadsheet
CreateSpreadsheet ==
    /\ pl_pc = "sheets"
    /\ pl_pc' = "setup"
    /\ pl_remote' = Append(pl_remote, "create_spreadsheet")
    /\ UNCHANGED <<pl_pipeline, pl_flow, pl_llm_plan, pl_plan, pl_errors, pl_writes,
                   addrVars, transVars, layoutVars, validVars, outVars, pl_trace, pl_llm_calls, rrVars, invokeVars, cleanVars, bcastVars, wfVars>>

\* add_sheets_and_headers (main.py)
MainAddSheetsAndHeaders ==
    /\ pl_pc = "setup"
    /\ pl_pipeline = "main"
    /\ pl_sheet_requests' = add_sheet_requests(pl_flow)
    /\ pl_values' = main_header_values(pl_flow)
    /\ pl_pc' = "apply"
    /\ pl_remote' = Append(pl_remote, "add_sheets_and_headers")
    /\ UNCHANGED <<pl_pipeline, pl_flow, pl_llm_plan, pl_plan, pl_errors, pl_writes,
                   pl_format_requests, pl_warnings, pl_log,
                   addrVars, transVars, layoutVars, validVars, pl_trace, pl_llm_calls, rrVars, invokeVars, cleanVars, bcastVars, wfVars>>

\* GoogleSheetsManager.setup_sheets, called by main (main_cli.py) and by
\* FMSAgent.create_google_sheet: the sheets are created, then each one gets
\* its headers and its formatting
SetupSheets ==
    /\ pl_pc = "setup"
    /\ pl_pipeline \in {"cli", "fms"}
    /\ pl_sheet_requests' = add_sheet_requests(pl_flow)
    /\ pl_values' = setup_header_values(pl_flow, Len(pl_flow.sheets))
    /\ pl_format_requests' = setup_format_requests(pl_flow)
    /\ pl_pc' = "apply"
    /\ pl_remote' = Append(pl_remote, "setup_sheets")
    /\ UNCHANGED <<pl_pipeline, pl_flow, pl_llm_plan, pl_plan, pl_errors, pl_writes,
                   pl_warnings, pl_log, addrVars, transVars, layoutVars, validVars, pl_trace, pl_llm_calls, rrVars, invokeVars, cleanVars, bcastVars, wfVars>>

\* apply_formulas (main.py)
MainApplyFormulas ==
    /\ pl_pc = "apply"
    /\ pl_pipeline = "main"
    /\ pl_writes' = main_apply_formulas(pl_flow, pl_plan, Len(pl_plan))
    /\ pl_log' = pl_log \o main_skip_log(pl_flow, pl_plan, Len(pl_plan))
    /\ pl_pc' = "done"
    /\ pl_remote' = pl_remote \o [i \in 1..Len(pl_writes') |-> "values.update"]
    /\ UNCHANGED <<pl_pipeline, pl_flow, pl_llm_plan, pl_plan, pl_errors,
                   addrVars, transVars, layoutVars, validVars,
                   pl_sheet_requests, pl_values, pl_format_requests, pl_warnings, pl_trace, pl_llm_calls, rrVars, invokeVars, cleanVars, bcastVars, wfVars>>

\* GoogleSheetsManager.apply_formulas, called by main (main_cli.py) and by
\* FMSAgent.create_google_sheet
ManagerApplyFormulas ==
    /\ pl_pc = "apply"
    /\ pl_pipeline \in {"cli", "fms"}
    /\ pl_writes' = manager_apply_formulas(pl_flow, pl_plan, Len(pl_plan))
    /\ pl_pc' = "done"
    /\ pl_remote' = pl_remote \o [i \in 1..Len(pl_writes') |-> "values.update"]
    /\ UNCHANGED <<pl_pipeline, pl_flow, pl_llm_plan, pl_plan, pl_errors,
                   addrVars, transVars, layoutVars, validVars, outVars, pl_trace, pl_llm_calls, rrVars, invokeVars, cleanVars, bcastVars, wfVars>>

\* a second run of setup_sheets followed by apply_formulas, on the same
\* FlowSchema and FormulaPlan values
SecondRun ==
    /\ pl_pc = "done"
    /\ pl_pipeline \in {"cli", "fms"}
    /\ rr_values' = setup_header_values(pl_flow, Len(pl_flow.sheets))
    /\ rr_format_requests' = setup_format_requests(pl_flow)
    /\ rr_writes' = manager_apply_formulas(pl_flow, pl_plan, Len(pl_plan))
    /\ pl_pc' = "rerun_done"
    /\ UNCHANGED <<pl_pipeline, pl_flow, pl_llm_plan, pl_plan, pl_errors, pl_writes,
                   addrVars, transVars, layoutVars, validVars, outVars,
                   pl_trace, pl_llm_calls, pl_remote, invokeVars, cleanVars, bcastVars, wfVars>>

NextPipeline ==
    \/ StructureAgent
    \/ StructureAgentFails
    \/ FormulaAgentNoFlow
    \/ CliFormulaAgent
    \/ PlainFormulaAgent
    \/ FormulaAgentFails
    \/ CreateSpreadsheet
    \/ MainAddSheetsAndHeaders
    \/ SetupSheets
    \/ MainApplyFormulas
    \/ ManagerApplyFormulas
    \/ SecondRun

-----------------------------------------------------------------------------
(* Name validation of the schema classes (main_cli.py) *)

\* the length cap of a sheet name: [:100]
SheetNameCap == 100

\* SheetSchema.validate_name: raises on an input empty after strip(),
\* otherwise stores re.sub(r'[^\w\s-]', '', v)[:100]
sheet_validate_name_accepts(v) == Len(strip(v)) # 0
sheet_validate_name(v) ==
    LET kept == sanitize(v)
    IN  IF Len(kept) > SheetNameCap THEN SubSeq(kept, 1, SheetNameCap) ELSE kept

\* the characters of the raw names
RawChars == {"a", " ", "!", "-"}
RawNames == SeqsUpTo(RawChars, MaxRawLen)
ValidatorKinds == {"column", "sheet", "stage"}

validator_accepts(kind, v) ==
    IF kind = "column" THEN validate_name_accepts(v)
    ELSE IF kind = "sheet" THEN sheet_validate_name_accepts(v)
    ELSE validate_stage_name_accepts(v)

validator_result(kind, v) ==
    IF kind = "column" THEN validate_name(v)
    ELSE IF kind = "sheet" THEN sheet_validate_name(v)
    ELSE validate_stage_name(v)

InitValidate ==
    /\ vn_kind \in ValidatorKinds
    /\ vn_raw \in RawNames
    /\ vn_out = <<>>
    /\ vn_pc = "call"
    /\ cl_arg = 0
    /\ index = 0
    /\ result = <<>>
    /\ cl_pc = "idle"
    /\ tf_formula = <<>>
    /\ tf_col_map = <<>>
    /\ tf_row = 0
    /\ tf_out = <<>>
    /\ tf_pc = "idle"
    /\ ls_sheet = [name |-> <<>>, columns |-> <<>>, stages |-> <<>>]
    /\ ls_values = <<>>
    /\ ls_requests = <<>>
    /\ ls_stage_names_row = <<>>
    /\ ls_stage_ranges = <<>>
    /\ ls_computed = <<>>
    /\ ls_pc = "idle"
    /\ pl_pipeline = "none"
    /\ pl_flow = NoFlow
    /\ pl_llm_plan = <<>>
    /\ pl_plan = <<>>
    /\ pl_errors = <<>>
    /\ pl_writes = <<>>
    /\ pl_sheet_requests = <<>>
    /\ pl_values = <<>>
    /\ pl_format_requests = <<>>
    /\ pl_warnings = <<>>
    /\ pl_log = <<>>
    /\ pl_pc = "idle"
    /\ pl_trace = <<>>
    /\ pl_llm_calls = 0
    /\ pl_remote = <<>>
    /\ rr_values = <<>>
    /\ rr_format_requests = <<>>
    /\ rr_writes = <<>>
    /\ iv_max = 0
    /\ iv_attempt = 0
    /\ iv_calls = <<>>
    /\ iv_result = <<>>
    /\ iv_pc = "idle"
    /\ jc_content = <<>>
    /\ jc_out = <<>>
    /\ jc_pc = "idle"
    /\ bc_conns = <<>>
    /\ bc_index = 0
    /\ bc_cur = 0
    /\ bc_sends = <<>>
    /\ bc_stayed = {}
    /\ bc_closed = {}
    /\ bc_pc = "idle"
    /\ wf_pc = <<>>
    /\ wf_broadcasts = <<>>
    /\ wf_response = <<>>

\* the validator raises ValueError: the name is rejected
ValidatorRaises ==
    /\ vn_pc = "call"
    /\ ~validator_accepts(vn_kind, vn_raw)
    /\ vn_pc' = "rejected"
    /\ UNCHANGED <<vn_kind, vn_raw, vn_out, addrVars, transVars, layoutVars, pipeVars, runVars, invokeVars, cleanVars, bcastVars, wfVars>>

\* the validator returns the sanitized name, which the model object stores
ValidatorReturns ==
    /\ vn_pc = "call"
    /\ validator_accepts(vn_kind, vn_raw)
    /\ vn_out' = validator_result(vn_kind, vn_raw)
    /\ vn_pc' = "stored"
    /\ UNCHANGED <<vn_kind, vn_raw, addrVars, transVars, layoutVars, pipeVars, runVars, invokeVars, cleanVars, bcastVars, wfVars>>

NextValidate == ValidatorRaises \/ ValidatorReturns

-----------------------------------------------------------------------------
(* Model invocation with retries: LLMClient.invoke (main_cli.py) *)

\* the contents a completion carries
Contents == {"content1", "content2"}

\* the exceptions the body of the try statement raises
CallExceptions == {"error1", "error2"}

\* raise Exception("Max retries exceeded for LLM invocation")
MaxRetriesExceeded == "Max retries exceeded for LLM invocation"

\* a test of the last attempt that is one attempt late
is_last_attempt_late(attempt, max_retries) == attempt = max_retries

\* if attempt == Config.MAX_RETRIES - 1
is_last_attempt(attempt, max_retries) == attempt = max_retries - 1

InitInvoke ==
    /\ iv_max \in 0..MaxRetriesSetting
    /\ iv_attempt = 0
    /\ iv_calls = <<>>
    /\ iv_result = <<>>
    /\ iv_pc = "loop"
    /\ vn_kind = "none"
    /\ vn_raw = <<>>
    /\ vn_out = <<>>
    /\ vn_pc = "idle"
    /\ cl_arg = 0
    /\ index = 0
    /\ result = <<>>
    /\ cl_pc = "idle"
    /\ tf_formula = <<>>
    /\ tf_col_map = <<>>
    /\ tf_row = 0
    /\ tf_out = <<>>
    /\ tf_pc = "idle"
    /\ ls_sheet = [name |-> <<>>, columns |-> <<>>, stages |-> <<>>]
    /\ ls_values = <<>>
    /\ ls_requests = <<>>
    /\ ls_stage_names_row = <<>>
    /\ ls_stage_ranges = <<>>
    /\ ls_computed = <<>>
    /\ ls_pc = "idle"
    /\ pl_pipeline = "none"
    /\ pl_flow = NoFlow
    /\ pl_llm_plan = <<>>
    /\ pl_plan = <<>>
    /\ pl_errors = <<>>
    /\ pl_writes = <<>>
    /\ pl_sheet_requests = <<>>
    /\ pl_values = <<>>
    /\ pl_format_requests = <<>>
    /\ pl_warnings = <<>>
    /\ pl_log = <<>>
    /\ pl_pc = "idle"
    /\ pl_trace = <<>>
    /\ pl_llm_calls = 0
    /\ pl_remote = <<>>
    /\ rr_values = <<>>
    /\ rr_format_requests = <<>>
    /\ rr_writes = <<>>
    /\ jc_content = <<>>
    /\ jc_out = <<>>
    /\ jc_pc = "idle"
    /\ bc_conns = <<>>
    /\ bc_index = 0
    /\ bc_cur = 0
    /\ bc_sends = <<>>
    /\ bc_stayed = {}
    /\ bc_closed = {}
    /\ bc_pc = "idle"
    /\ wf_pc = <<>>
    /\ wf_broadcasts = <<>>
    /\ wf_response = <<>>

\* one pass of the loop whose try body ends with `return content`
InvokeCallReturns ==
    /\ iv_pc = "loop"
    /\ iv_attempt < iv_max
    /\ \E c \in Contents :
           /\ iv_calls' = Append(iv_calls, [ok |-> TRUE, value |-> c])
           /\ iv_result' = [raised |-> FALSE, value |-> c]
    /\ iv_pc' = "returned"
    /\ UNCHANGED <<iv_max, iv_attempt>>
    /\ UNCHANGED <<addrVars, transVars, layoutVars, pipeVars, validVars, runVars,
                   cleanVars, bcastVars, wfVars>>

\* one pass of the loop whose try body raises: the handler raises again on
\* the last attempt and continues otherwise
InvokeCallRaises ==
    /\ iv_pc = "loop"
    /\ iv_attempt < iv_max
    /\ \E e \in CallExceptions :
           /\ iv_calls' = Append(iv_calls, [ok |-> FALSE, value |-> e])
           /\ IF is_last_attempt(iv_attempt, iv_max)
              THEN /\ iv_result' = [raised |-> TRUE, value |-> e]
                   /\ iv_pc' = "raised"
                   /\ UNCHANGED iv_attempt
              ELSE /\ iv_attempt' = iv_attempt + 1
                   /\ UNCHANGED <<iv_result, iv_pc>>
    /\ UNCHANGED iv_max
    /\ UNCHANGED <<addrVars, transVars, layoutVars, pipeVars, validVars, runVars,
                   cleanVars, bcastVars, wfVars>>

\* the range is exhausted: the raise after the loop
InvokeExhausted ==
    /\ iv_pc = "loop"
    /\ iv_attempt >= iv_max
    /\ iv_result' = [raised |-> TRUE, value |-> MaxRetriesExceeded]
    /\ iv_pc' = "raised"
    /\ UNCHANGED <<iv_max, iv_attempt, iv_calls>>
    /\ UNCHANGED <<addrVars, transVars, layoutVars, pipeVars, validVars, runVars,
                   cleanVars, bcastVars, wfVars>>

NextInvoke == InvokeCallReturns \/ InvokeCallRaises \/ InvokeExhausted

-----------------------------------------------------------------------------
(* Extraction of the JSON text of a response: JSONCleaner.clean              *)
(* (main_cli.py)                                                           *)

\* content.startswith(prefix)
startswith(t, prefix) == Len(t) >= Len(prefix) /\ SubSeq(t, 1, Len(prefix)) = prefix

\* the 0-based positions at which sub occurs in t
Occurrences(t, sub) ==
    {i \in 0..(Len(t) - Len(sub)) : SubSeq(t, i + 1, i + Len(sub)) = sub}

\* content.find(sub)
find(t, sub) ==
    IF Occurrences(t, sub) = {} THEN 0 - 1
    ELSE CHOOSE i \in Occurrences(t, sub) : \A j \in Occurrences(t, sub) : i <= j

\* content.rfind(sub)
rfind(t, sub) ==
    IF Occurrences(t, sub) = {} THEN 0 - 1
    ELSE CHOOSE i \in Occurrences(t, sub) : \A j \in Occurrences(t, sub) : i >= j

\* the character U+0060 (grave accent), which a string of this language
\* cannot hold
Backtick == "GRAVE"

Fence == <<Backtick, Backtick, Backtick>>

\* if content.startswith("```"): drop the first line, then cut at the last
\* fence
strip_fence(content) ==
    IF startswith(content, Fence)
    THEN LET first_newline == find(content, <<"\n">>)
             rest == IF first_newline # 0 - 1
                     THEN SubSeq(content, first_newline + 2, Len(content))
                     ELSE content
             closing_fence == rfind(rest, Fence)
         IN  IF closing_fence # 0 - 1 THEN SubSeq(rest, 1, closing_fence) ELSE rest
    ELSE content

\* start_idx = content.find("{"); if start_idx == -1: start_idx = content.find("[")
clean_start(content) ==
    IF find(content, <<"{">>) # 0 - 1 THEN find(content, <<"{">>)
    ELSE find(content, <<"[">>)

\* for i in range(start_idx, len(content)): ..., from i on with count so far
RECURSIVE clean_scan(_, _, _, _, _)
clean_scan(content, i, count, open_char, close_char) ==
    IF i >= Len(content) THEN 0 - 1
    ELSE IF content[i + 1] = open_char
         THEN clean_scan(content, i + 1, count + 1, open_char, close_char)
    ELSE IF content[i + 1] = close_char
         THEN IF count - 1 = 0 THEN i + 1
              ELSE clean_scan(content, i + 1, count - 1, open_char, close_char)
    ELSE clean_scan(content, i + 1, count, open_char, close_char)

\* json.loads(cleaned) on the texts of the model: numbers written with the
\* digit 1, the empty object, and arrays of values
RECURSIVE json_loads_accepts(_)
RECURSIVE json_elements(_)
json_loads_accepts(t) ==
    \/ t # <<>> /\ \A i \in 1..Len(t) : t[i] = "1"
    \/ t = <<"{", "}">>
    \/ /\ Len(t) >= 2
       /\ t[1] = "["
       /\ t[Len(t)] = "]"
       /\ (Len(t) = 2 \/ json_elements(SubSeq(t, 2, Len(t) - 1)))
json_elements(u) ==
    \/ json_loads_accepts(u)
    \/ \E k \in 2..(Len(u) - 1) :
           /\ u[k] = ","
           /\ json_loads_accepts(SubSeq(u, 1, k - 1))
           /\ json_elements(SubSeq(u, k + 1, Len(u)))

ValueError(message) == [raised |-> TRUE, text |-> <<>>, error |-> message]

\* JSONCleaner.clean(content): the text returned or the ValueError raised
clean(content) ==
    LET c == strip(strip_fence(strip(content)))
        start_idx == clean_start(c)
    IN  IF start_idx = 0 - 1
        THEN ValueError("No JSON object or array found in response")
        ELSE LET open_char == c[start_idx + 1]
                 close_char == IF open_char = "{" THEN "}" ELSE "]"
                 end_idx == clean_scan(c, start_idx, 0, open_char, close_char)
             IN  IF end_idx = 0 - 1
                 THEN ValueError("Malformed JSON: no matching closing bracket")
                 ELSE IF json_loads_accepts(SubSeq(c, start_idx + 1, end_idx))
                      THEN [raised |-> FALSE, text |-> SubSeq(c, start_idx + 1, end_idx),
                            error |-> ""]
                      ELSE ValueError("Invalid JSON structure")

\* the characters of a response between the fences
BodyChars == {"{", "}", "[", "]", "1", ","}

\* what a response opens with: nothing, a fence line, a fence line with a
\* language tag, a fence without a line end
ResponsePrefixes ==
    {<<>>, Fence \o <<"\n">>, Fence \o <<"j", "\n">>, Fence}

\* what a response closes with: nothing, or a closing fence on its own line
ResponseSuffixes == {<<>>, <<"\n">> \o Fence}

\* the responses of the model
Responses ==
    {pre \o body \o suf :
         pre \in ResponsePrefixes, body \in SeqsUpTo(BodyChars, MaxBodyLen),
         suf \in ResponseSuffixes}

InitClean ==
    /\ jc_content \in Responses
    /\ jc_out = <<>>
    /\ jc_pc = "call"
    /\ vn_kind = "none"
    /\ vn_raw = <<>>
    /\ vn_out = <<>>
    /\ vn_pc = "idle"
    /\ cl_arg = 0
    /\ index = 0
    /\ result = <<>>
    /\ cl_pc = "idle"
    /\ tf_formula = <<>>
    /\ tf_col_map = <<>>
    /\ tf_row = 0
    /\ tf_out = <<>>
    /\ tf_pc = "idle"
    /\ ls_sheet = [name |-> <<>>, columns |-> <<>>, stages |-> <<>>]
    /\ ls_values = <<>>
    /\ ls_requests = <<>>
    /\ ls_stage_names_row = <<>>
    /\ ls_stage_ranges = <<>>
    /\ ls_computed = <<>>
    /\ ls_pc = "idle"
    /\ pl_pipeline = "none"
    /\ pl_flow = NoFlow
    /\ pl_llm_plan = <<>>
    /\ pl_plan = <<>>
    /\ pl_errors = <<>>
    /\ pl_writes = <<>>
    /\ pl_sheet_requests = <<>>
    /\ pl_values = <<>>
    /\ pl_format_requests = <<>>
    /\ pl_warnings = <<>>
    /\ pl_log = <<>>
    /\ pl_pc = "idle"
    /\ pl_trace = <<>>
    /\ pl_llm_calls = 0
    /\ pl_remote = <<>>
    /\ rr_values = <<>>
    /\ rr_format_requests = <<>>
    /\ rr_writes = <<>>
    /\ iv_max = 0
    /\ iv_attempt = 0
    /\ iv_calls = <<>>
    /\ iv_result = <<>>
    /\ iv_pc = "idle"
    /\ bc_conns = <<>>
    /\ bc_index = 0
    /\ bc_cur = 0
    /\ bc_sends = <<>>
    /\ bc_stayed = {}
    /\ bc_closed = {}
    /\ bc_pc = "idle"
    /\ wf_pc = <<>>
    /\ wf_broadcasts = <<>>
    /\ wf_response = <<>>

\* the call JSONCleaner.clean(content)
Clean ==
    /\ jc_pc = "call"
    /\ jc_out' = clean(jc_content)
    /\ jc_pc' = IF clean(jc_content).raised THEN "raised" ELSE "returned"
    /\ UNCHANGED jc_content
    /\ UNCHANGED <<addrVars, transVars, layoutVars, pipeVars, validVars, runVars,
                   invokeVars, bcastVars, wfVars>>

NextClean == Clean

-----------------------------------------------------------------------------
(* Broadcast to the WebSocket clients: ConnectionManager (backend/main.py) *)

\* the WebSocket objects of the clients
Sockets == 1..NumSockets

\* the elements of a list
Elements(list) == {list[i] : i \in 1..Len(list)}

\* active_connections when a broadcast begins: each socket was appended once
ConnectionLists ==
    {list \in SeqsUpTo(Sockets, NumSockets) :
         \A i, j \in 1..Len(list) : i # j => list[i] # list[j]}

\* list.remove(x): the list without its first x
list_remove(list, x) ==
    LET k == CHOOSE i \in 1..Len(list) :
                 list[i] = x /\ \A j \in 1..(i - 1) : list[j] # x
    IN  [i \in 1..(Len(list) - 1) |-> IF i < k THEN list[i] ELSE list[i + 1]]

InitBroadcast ==
    /\ bc_conns \in ConnectionLists
    /\ bc_index = 0
    /\ bc_cur = 0
    /\ bc_sends = <<>>
    /\ bc_stayed = {bc_conns[i] : i \in 1..Len(bc_conns)}
    /\ bc_closed = {}
    /\ bc_pc = "next"
    /\ vn_kind = "none"
    /\ vn_raw = <<>>
    /\ vn_out = <<>>
    /\ vn_pc = "idle"
    /\ cl_arg = 0
    /\ index = 0
    /\ result = <<>>
    /\ cl_pc = "idle"
    /\ tf_formula = <<>>
    /\ tf_col_map = <<>>
    /\ tf_row = 0
    /\ tf_out = <<>>
    /\ tf_pc = "idle"
    /\ ls_sheet = [name |-> <<>>, columns |-> <<>>, stages |-> <<>>]
    /\ ls_values = <<>>
    /\ ls_requests = <<>>
    /\ ls_stage_names_row = <<>>
    /\ ls_stage_ranges = <<>>
    /\ ls_computed = <<>>
    /\ ls_pc = "idle"
    /\ pl_pipeline = "none"
    /\ pl_flow = NoFlow
    /\ pl_llm_plan = <<>>
    /\ pl_plan = <<>>
    /\ pl_errors = <<>>
    /\ pl_writes = <<>>
    /\ pl_sheet_requests = <<>>
    /\ pl_values = <<>>
    /\ pl_format_requests = <<>>
    /\ pl_warnings = <<>>
    /\ pl_log = <<>>
    /\ pl_pc = "idle"
    /\ pl_trace = <<>>
    /\ pl_llm_calls = 0
    /\ pl_remote = <<>>
    /\ rr_values = <<>>
    /\ rr_format_requests = <<>>
    /\ rr_writes = <<>>
    /\ iv_max = 0
    /\ iv_attempt = 0
    /\ iv_calls = <<>>
    /\ iv_result = <<>>
    /\ iv_pc = "idle"
    /\ jc_content = <<>>
    /\ jc_out = <<>>
    /\ jc_pc = "idle"
    /\ wf_pc = <<>>
    /\ wf_broadcasts = <<>>
    /\ wf_response = <<>>

\* for connection in self.active_connections: the list iterator yields the
\* element at its position in the list as it is now, or ends the loop
BroadcastNext ==
    /\ bc_pc = "next"
    /\ IF bc_index < Len(bc_conns)
       THEN /\ bc_cur' = bc_conns[bc_index + 1]
            /\ bc_index' = bc_index + 1
            /\ bc_pc' = "send"
       ELSE /\ bc_pc' = "done"
            /\ UNCHANGED <<bc_cur, bc_index>>
    /\ UNCHANGED <<bc_conns, bc_sends, bc_stayed, bc_closed>>
    /\ UNCHANGED <<addrVars, transVars, layoutVars, pipeVars, validVars, runVars,
                   invokeVars, cleanVars, wfVars>>

\* await connection.send_json(message) returns
SendJsonReturns ==
    /\ bc_pc = "send"
    /\ bc_sends' = Append(bc_sends, [to |-> bc_cur, ok |-> TRUE])
    /\ bc_pc' = "next"
    /\ UNCHANGED <<bc_conns, bc_index, bc_cur, bc_stayed, bc_closed>>
    /\ UNCHANGED <<addrVars, transVars, layoutVars, pipeVars, validVars, runVars,
                   invokeVars, cleanVars, wfVars>>

\* await connection.send_json(message) raises: the exception is logged
SendJsonRaises ==
    /\ bc_pc = "send"
    /\ bc_sends' = Append(bc_sends, [to |-> bc_cur, ok |-> FALSE])
    /\ bc_pc' = "next"
    /\ UNCHANGED <<bc_conns, bc_index, bc_cur, bc_stayed, bc_closed>>
    /\ UNCHANGED <<addrVars, transVars, layoutVars, pipeVars, validVars, runVars,
                   invokeVars, cleanVars, wfVars>>

\* manager.connect(websocket) of a new client, run while the broadcast waits
\* for a send
Connect ==
    /\ bc_pc = "send"
    /\ \E ws \in Sockets :
           /\ ws \notin Elements(bc_conns)
           /\ ws \notin bc_closed
           /\ bc_conns' = Append(bc_conns, ws)
    /\ UNCHANGED <<bc_index, bc_cur, bc_sends, bc_stayed, bc_closed, bc_pc>>
    /\ UNCHANGED <<addrVars, transVars, layoutVars, pipeVars, validVars, runVars,
                   invokeVars, cleanVars, wfVars>>

\* manager.disconnect(websocket), called by websocket_logs when its client
\* has gone, run while the broadcast waits for a send
Disconnect ==
    /\ bc_pc = "send"
    /\ \E ws \in Elements(bc_conns) :
           /\ bc_conns' = list_remove(bc_conns, ws)
           /\ bc_stayed' = bc_stayed \ {ws}
           /\ bc_closed' = bc_closed \cup {ws}
    /\ UNCHANGED <<bc_index, bc_cur, bc_sends, bc_pc>>
    /\ UNCHANGED <<addrVars, transVars, layoutVars, pipeVars, validVars, runVars,
                   invokeVars, cleanVars, wfVars>>

NextBroadcast ==
    BroadcastNext \/ SendJsonReturns \/ SendJsonRaises \/ Connect \/ Disconnect

-----------------------------------------------------------------------------
(* The workflow endpoint: create_workflow (backend/main.py) and             *)
(* FMSAgent.execute (backend/fms_agent.py)                                  *)

\* the create_workflow requests the server handles
Requests == 1..NumRequests

\* a message of type "log", as create_workflow and log_callback build it
LogMessage(stage) == [type |-> "log", stage |-> stage]

\* a message of type "complete" or "error"
TerminalMessage(type) == [type |-> type, stage |-> ""]

\* the broadcast of the success path of create_workflow
complete_broadcasts(broadcasts) == Append(broadcasts, TerminalMessage("complete"))

\* a handler that raises HTTPException without a broadcast
except_broadcasts_silent(broadcasts) == broadcasts

\* the broadcast of the except handler of create_workflow
except_broadcasts(broadcasts) == Append(broadcasts, TerminalMessage("error"))

InitWorkflow ==
    /\ wf_pc = [r \in Requests |-> "idle"]
    /\ wf_broadcasts = [r \in Requests |-> <<>>]
    /\ wf_response = [r \in Requests |-> "none"]
    /\ vn_kind = "none"
    /\ vn_raw = <<>>
    /\ vn_out = <<>>
    /\ vn_pc = "idle"
    /\ cl_arg = 0
    /\ index = 0
    /\ result = <<>>
    /\ cl_pc = "idle"
    /\ tf_formula = <<>>
    /\ tf_col_map = <<>>
    /\ tf_row = 0
    /\ tf_out = <<>>
    /\ tf_pc = "idle"
    /\ ls_sheet = [name |-> <<>>, columns |-> <<>>, stages |-> <<>>]
    /\ ls_values = <<>>
    /\ ls_requests = <<>>
    /\ ls_stage_names_row = <<>>
    /\ ls_stage_ranges = <<>>
    /\ ls_computed = <<>>
    /\ ls_pc = "idle"
    /\ pl_pipeline = "none"
    /\ pl_flow = NoFlow
    /\ pl_llm_plan = <<>>
    /\ pl_plan = <<>>
    /\ pl_errors = <<>>
    /\ pl_writes = <<>>
    /\ pl_sheet_requests = <<>>
    /\ pl_values = <<>>
    /\ pl_format_requests = <<>>
    /\ pl_warnings = <<>>
    /\ pl_log = <<>>
    /\ pl_pc = "idle"
    /\ pl_trace = <<>>
    /\ pl_llm_calls = 0
    /\ pl_remote = <<>>
    /\ rr_values = <<>>
    /\ rr_format_requests = <<>>
    /\ rr_writes = <<>>
    /\ iv_max = 0
    /\ iv_attempt = 0
    /\ iv_calls = <<>>
    /\ iv_result = <<>>
    /\ iv_pc = "idle"
    /\ jc_content = <<>>
    /\ jc_out = <<>>
    /\ jc_pc = "idle"
    /\ bc_conns = <<>>
    /\ bc_index = 0
    /\ bc_cur = 0
    /\ bc_sends = <<>>
    /\ bc_stayed = {}
    /\ bc_closed = {}
    /\ bc_pc = "idle"

\* the request arrives: the "init" log is broadcast
CreateWorkflowStart ==
    \E r \in Requests :
        /\ wf_pc[r] = "idle"
        /\ wf_pc' = [wf_pc EXCEPT ![r] = "agent"]
        /\ wf_broadcasts' = [wf_broadcasts EXCEPT ![r] = wf_broadcasts[r] \o <<LogMessage("init")>>]
        /\ UNCHANGED wf_response
        /\ UNCHANGED <<addrVars, transVars, layoutVars, pipeVars, validVars, runVars,
                       invokeVars, cleanVars, bcastVars>>

\* FMSAgent(...) raises (no API key): control passes to the handler of
\* create_workflow
AgentInitRaises ==
    \E r \in Requests :
        /\ wf_pc[r] = "agent"
        /\ wf_pc' = [wf_pc EXCEPT ![r] = "handler_except"]
        /\ UNCHANGED wf_broadcasts
        /\ UNCHANGED wf_response
        /\ UNCHANGED <<addrVars, transVars, layoutVars, pipeVars, validVars, runVars,
                       invokeVars, cleanVars, bcastVars>>

\* execute: the project folder is created and logged
ExecuteSetup ==
    \E r \in Requests :
        /\ wf_pc[r] = "agent"
        /\ wf_pc' = [wf_pc EXCEPT ![r] = "structure"]
        /\ wf_broadcasts' = [wf_broadcasts EXCEPT ![r] = wf_broadcasts[r] \o <<LogMessage("setup")>>]
        /\ UNCHANGED wf_response
        /\ UNCHANGED <<addrVars, transVars, layoutVars, pipeVars, validVars, runVars,
                       invokeVars, cleanVars, bcastVars>>

\* execute: create_project_folder raises
ExecuteSetupRaises ==
    \E r \in Requests :
        /\ wf_pc[r] = "agent"
        /\ wf_pc' = [wf_pc EXCEPT ![r] = "execute_except"]
        /\ UNCHANGED wf_broadcasts
        /\ UNCHANGED wf_response
        /\ UNCHANGED <<addrVars, transVars, layoutVars, pipeVars, validVars, runVars,
                       invokeVars, cleanVars, bcastVars>>

\* execute: structure_agent returns, after its three logs
ExecuteStructure ==
    \E r \in Requests :
        /\ wf_pc[r] = "structure"
        /\ wf_pc' = [wf_pc EXCEPT ![r] = "formula"]
        /\ wf_broadcasts' = [wf_broadcasts EXCEPT ![r] = wf_broadcasts[r] \o <<LogMessage("structure"), LogMessage("structure"), LogMessage("structure")>>]
        /\ UNCHANGED wf_response
        /\ UNCHANGED <<addrVars, transVars, layoutVars, pipeVars, validVars, runVars,
                       invokeVars, cleanVars, bcastVars>>

\* execute: structure_agent raises in the model call or in the parsing of its
\* response, after two logs
ExecuteStructureRaises ==
    \E r \in Requests :
        /\ wf_pc[r] = "structure"
        /\ wf_pc' = [wf_pc EXCEPT ![r] = "execute_except"]
        /\ wf_broadcasts' = [wf_broadcasts EXCEPT ![r] = wf_broadcasts[r] \o <<LogMessage("structure"), LogMessage("structure")>>]
        /\ UNCHANGED wf_response
        /\ UNCHANGED <<addrVars, transVars, layoutVars, pipeVars, validVars, runVars,
                       invokeVars, cleanVars, bcastVars>>

\* execute: formula_agent returns, after its three logs
ExecuteFormula ==
    \E r \in Requests :
        /\ wf_pc[r] = "formula"
        /\ wf_pc' = [wf_pc EXCEPT ![r] = "sheets"]
        /\ wf_broadcasts' = [wf_broadcasts EXCEPT ![r] = wf_broadcasts[r] \o <<LogMessage("formula"), LogMessage("formula"), LogMessage("formula")>>]
        /\ UNCHANGED wf_response
        /\ UNCHANGED <<addrVars, transVars, layoutVars, pipeVars, validVars, runVars,
                       invokeVars, cleanVars, bcastVars>>

\* execute: formula_agent raises in the model call or in the parsing of its
\* response, after two logs
ExecuteFormulaRaises ==
    \E r \in Requests :
        /\ wf_pc[r] = "formula"
        /\ wf_pc' = [wf_pc EXCEPT ![r] = "execute_except"]
        /\ wf_broadcasts' = [wf_broadcasts EXCEPT ![r] = wf_broadcasts[r] \o <<LogMessage("formula"), LogMessage("formula")>>]
        /\ UNCHANGED wf_response
        /\ UNCHANGED <<addrVars, transVars, layoutVars, pipeVars, validVars, runVars,
                       invokeVars, cleanVars, bcastVars>>

\* execute: create_google_sheet returns, after its three logs
ExecuteSheets ==
    \E r \in Requests :
        /\ wf_pc[r] = "sheets"
        /\ wf_pc' = [wf_pc EXCEPT ![r] = "finish"]
        /\ wf_broadcasts' = [wf_broadcasts EXCEPT ![r] = wf_broadcasts[r] \o <<LogMessage("sheets"), LogMessage("sheets"), LogMessage("sheets")>>]
        /\ UNCHANGED wf_response
        /\ UNCHANGED <<addrVars, transVars, layoutVars, pipeVars, validVars, runVars,
                       invokeVars, cleanVars, bcastVars>>

\* execute: create_google_sheet raises in authenticate or create_spreadsheet,
\* after one log
ExecuteSheetsRaisesEarly ==
    \E r \in Requests :
        /\ wf_pc[r] = "sheets"
        /\ wf_pc' = [wf_pc EXCEPT ![r] = "execute_except"]
        /\ wf_broadcasts' = [wf_broadcasts EXCEPT ![r] = wf_broadcasts[r] \o <<LogMessage("sheets")>>]
        /\ UNCHANGED wf_response
        /\ UNCHANGED <<addrVars, transVars, layoutVars, pipeVars, validVars, runVars,
                       invokeVars, cleanVars, bcastVars>>

\* execute: create_google_sheet raises in setup_sheets or apply_formulas, after
\* two logs
ExecuteSheetsRaisesLate ==
    \E r \in Requests :
        /\ wf_pc[r] = "sheets"
        /\ wf_pc' = [wf_pc EXCEPT ![r] = "execute_except"]
        /\ wf_broadcasts' = [wf_broadcasts EXCEPT ![r] = wf_broadcasts[r] \o <<LogMessage("sheets"), LogMessage("sheets")>>]
        /\ UNCHANGED wf_response
        /\ UNCHANGED <<addrVars, transVars, layoutVars, pipeVars, validVars, runVars,
                       invokeVars, cleanVars, bcastVars>>

\* execute: metadata and documentation are written, the "complete" log is
\* sent and the result returned
ExecuteFinish ==
    \E r \in Requests :
        /\ wf_pc[r] = "finish"
        /\ wf_pc' = [wf_pc EXCEPT ![r] = "returned"]
        /\ wf_broadcasts' = [wf_broadcasts EXCEPT ![r] = wf_broadcasts[r] \o <<LogMessage("complete")>>]
        /\ UNCHANGED wf_response
        /\ UNCHANGED <<addrVars, transVars, layoutVars, pipeVars, validVars, runVars,
                       invokeVars, cleanVars, bcastVars>>

\* execute: save_metadata or DocumentationGenerator.generate raises
ExecuteFinishRaises ==
    \E r \in Requests :
        /\ wf_pc[r] = "finish"
        /\ wf_pc' = [wf_pc EXCEPT ![r] = "execute_except"]
        /\ UNCHANGED wf_broadcasts
        /\ UNCHANGED wf_response
        /\ UNCHANGED <<addrVars, transVars, layoutVars, pipeVars, validVars, runVars,
                       invokeVars, cleanVars, bcastVars>>

\* execute: except Exception: the "error" log, then raise
ExecuteExcept ==
    \E r \in Requests :
        /\ wf_pc[r] = "execute_except"
        /\ wf_pc' = [wf_pc EXCEPT ![r] = "handler_except"]
        /\ wf_broadcasts' = [wf_broadcasts EXCEPT ![r] = wf_broadcasts[r] \o <<LogMessage("error")>>]
        /\ UNCHANGED wf_response
        /\ UNCHANGED <<addrVars, transVars, layoutVars, pipeVars, validVars, runVars,
                       invokeVars, cleanVars, bcastVars>>

\* create_workflow: the "complete" message is broadcast and the success
\* response returned
CreateWorkflowComplete ==
    \E r \in Requests :
        /\ wf_pc[r] = "returned"
        /\ wf_pc' = [wf_pc EXCEPT ![r] = "done"]
        /\ wf_broadcasts' = [wf_broadcasts EXCEPT ![r] = complete_broadcasts(wf_broadcasts[r])]
        /\ wf_response' = [wf_response EXCEPT ![r] = "success"]
        /\ UNCHANGED <<addrVars, transVars, layoutVars, pipeVars, validVars, runVars,
                       invokeVars, cleanVars, bcastVars>>

\* create_workflow: except Exception: the "error" message is broadcast and
\* HTTPException(500) raised
CreateWorkflowExcept ==
    \E r \in Requests :
        /\ wf_pc[r] = "handler_except"
        /\ wf_pc' = [wf_pc EXCEPT ![r] = "done"]
        /\ wf_broadcasts' = [wf_broadcasts EXCEPT ![r] = except_broadcasts(wf_broadcasts[r])]
        /\ wf_response' = [wf_response EXCEPT ![r] = "http500"]
        /\ UNCHANGED <<addrVars, transVars, layoutVars, pipeVars, validVars, runVars,
                       invokeVars, cleanVars, bcastVars>>

NextWorkflow ==
    \/ CreateWorkflowStart
    \/ AgentInitRaises
    \/ ExecuteSetup
    \/ ExecuteSetupRaises
    \/ ExecuteStructure
    \/ ExecuteStructureRaises
    \/ ExecuteFormula
    \/ ExecuteFormulaRaises
    \/ ExecuteSheets
    \/ ExecuteSheetsRaisesEarly
    \/ ExecuteSheetsRaisesLate
    \/ ExecuteFinish
    \/ ExecuteFinishRaises
    \/ ExecuteExcept
    \/ CreateWorkflowComplete
    \/ CreateWorkflowExcept

-----------------------------------------------------------------------------
(* Name validation: properties *)

\* C19: every name stored by ColumnInfo.validate_name, SheetSchema.validate_name
\* or WorkflowStage.validate_stage_name has length at least 1.
C19_StoredNameNonEmpty ==
    vn_pc = "stored" => Len(vn_out) >= 1

-----------------------------------------------------------------------------
(* Column addressing: properties *)

Ord(c) == CHOOSE i \in 1..26 : Upper[i] = c

\* the standard inverse: A=1 .. Z=26, most significant letter first
RECURSIVE toPosition(_)
toPosition(letters) ==
    IF letters = <<>> THEN 0
    ELSE toPosition(SubSeq(letters, 1, Len(letters) - 1)) * 26
             + Ord(letters[Len(letters)])

First28 == [n \in 1..28 |-> IF n <= 26 THEN <<Upper[n]>> ELSE <<"A", Upper[n - 26]>>]

\* C4: for every position n >= 1 up to the bound, the label col_letter returns
\* has only the letters A-Z, decodes back to n with the standard inverse, and
\* for n = 1..28 is A, B, ..., Z, AA, AB.
C4_BijectiveBase26 ==
    (cl_pc = "done" /\ cl_arg >= 1) =>
        /\ \A i \in 1..Len(result) : result[i] \in UpperSet
        /\ toPosition(result) = cl_arg
        /\ cl_arg <= 28 => result = First28[cl_arg]

\* C4 witness: col_letter(28) has returned AB
C4_Witness == cl_pc = "done" /\ cl_arg = 28 /\ result = <<"A", "B">>

\* C18: col_letter called with 0 or with a negative integer ends in an error:
\* it returns no label, and its loop does not go on adding letters.
C18_NonPositiveIsError ==
    cl_arg <= 0 => (cl_pc # "done" /\ result = <<>>)

-----------------------------------------------------------------------------
(* Formula translation: properties *)

\* name occurs at offset p of text with a non-word character or an edge of the
\* text on each side
BoundedOccurrence(text, p, name) ==
    /\ p + Len(name) <= Len(text)
    /\ SubSeq(text, p + 1, p + Len(name)) = name
    /\ (p = 0 \/ ~IsWordChar(text[p]))
    /\ (p + Len(name) = Len(text) \/ ~IsWordChar(text[p + Len(name) + 1]))

\* a name that starts and ends with a word character
PlainName(n) == n # <<>> /\ IsWordChar(n[1]) /\ IsWordChar(n[Len(n)])

\* one name of the map is a whole-word part of another
HasOverlap(col_map) ==
    \E i, j \in 1..Len(col_map) :
        /\ Len(col_map[i].col) < Len(col_map[j].col)
        /\ \E p \in 0..Len(col_map[j].col) :
               BoundedOccurrence(col_map[j].col, p, col_map[i].col)

\* the entries of the map whose name occurs, bounded, at offset p
EntriesAt(text, p, col_map) ==
    {k \in 1..Len(col_map) : BoundedOccurrence(text, p, col_map[k].col)}

\* the text in which every bounded occurrence of a name is replaced in one
\* left-to-right pass, the longest name first
RECURSIVE single_pass(_, _, _, _)
single_pass(text, col_map, row, p) ==
    IF p >= Len(text) THEN <<>>
    ELSE IF EntriesAt(text, p, col_map) = {}
         THEN <<text[p + 1]>> \o single_pass(text, col_map, row, p + 1)
         ELSE LET k == CHOOSE k \in EntriesAt(text, p, col_map) :
                           \A m \in EntriesAt(text, p, col_map) :
                               Len(col_map[m].col) <= Len(col_map[k].col)
              IN  col_map[k].letter \o str(row)
                      \o single_pass(text, col_map, row, p + Len(col_map[k].col))

\* C1: with a column map in which one name is a whole-word part of another,
\* every occurrence of the longer name is replaced by the longer column's
\* <letter><row> and every stand-alone occurrence of the shorter name by the
\* shorter column's; 'Total Amount + Total' at row 5 becomes 'B5 + A5'.
C1_OverlappingNames ==
    (/\ tf_pc = "done"
     /\ HasOverlap(tf_col_map)
     /\ \A k \in 1..Len(tf_col_map) : PlainName(tf_col_map[k].col)) =>
        /\ tf_out = single_pass(tf_formula, tf_col_map, tf_row, 0)
        /\ (tf_formula = TotalFormula
            /\ tf_col_map = sheet_column_map(<<Total, TotalAmount>>)) =>
               tf_out = <<"B","5"," ","+"," ","A","5">>

\* the text translate_formula holds before it substitutes entry k
RECURSIVE text_before(_, _, _, _)
text_before(formula, col_map, row, k) ==
    IF k = 1 THEN formula
    ELSE re_sub(col_map[k - 1].col, col_map[k - 1].letter \o str(row),
                text_before(formula, col_map, row, k - 1))

\* the offsets at which re.sub replaces pat in text, from offset p on
RECURSIVE replaced_offsets(_, _, _)
replaced_offsets(text, pat, p) ==
    IF p >= Len(text) THEN {}
    ELSE IF MatchAt(text, p, pat)
         THEN {p} \cup replaced_offsets(text, pat, p + Len(pat))
         ELSE replaced_offsets(text, pat, p + 1)

\* C9: every occurrence of a column name that translate_formula replaces has a
\* non-word character or an edge of the text on both sides, for every column
\* name the validators admit.
C9_WordBoundedOnly ==
    tf_pc = "done" =>
        \A k \in 1..Len(tf_col_map) :
            LET text == text_before(tf_formula, tf_col_map, tf_row, k)
            IN  \A p \in replaced_offsets(text, tf_col_map[k].col, 0) :
                    BoundedOccurrence(text, p, tf_col_map[k].col)

\* the orderings of an insertion-ordered dict
Orderings(d) ==
    {o \in [1..Len(d) -> {d[i] : i \in 1..Len(d)}] :
         \A i \in 1..Len(d) : \E j \in 1..Len(d) : o[j] = d[i]}

\* C10: translating with any ordering of the same name-to-letter map gives the
\* same text.
C10_OrderIndependent ==
    tf_pc = "done" =>
        \A o \in Orderings(tf_col_map) :
            translate_formula(tf_formula, o, tf_row) = tf_out

\* C11: translating the translated text again, with the same column map and
\* the same row, leaves it unchanged.
C11_TranslateIdempotent ==
    tf_pc = "done" =>
        translate_formula(tf_out, tf_col_map, tf_row) = tf_out

-----------------------------------------------------------------------------
(* Stage header layout: properties *)

Min(S) == CHOOSE x \in S : \A y \in S : x <= y
Max(S) == CHOOSE x \in S : \A y \in S : x >= y

\* 0-based positions of the sheet's columns named in the stage's explicit list
ExplicitMembers(sheet, stage) ==
    {i \in 0..(Len(sheet.columns) - 1) :
         \E k \in 1..Len(stage.columns) : stage.columns[k] = sheet.columns[i + 1].name}

\* 0-based positions of the sheet's columns tagged with the stage's number
TaggedMembers(sheet, stage) ==
    {i \in 0..(Len(sheet.columns) - 1) :
         sheet.columns[i + 1].stage_number = stage.stage_number}

ResolvedMembers(sheet, stage) ==
    IF ExplicitMembers(sheet, stage) # {} THEN ExplicitMembers(sheet, stage)
    ELSE TaggedMembers(sheet, stage)

\* C5: the range computed for a stage is [min, max] of the positions of its
\* resolved members: the explicit names that exist on the sheet and, only if
\* there is none, the columns tagged with the stage's number.
C5_StageRange ==
    ls_pc = "done" =>
        \A k \in 1..Len(ls_sheet.stages) :
            LET m == ResolvedMembers(ls_sheet, ls_sheet.stages[k])
            IN  m # {} => ls_computed[k] = [start |-> Min(m), end |-> Max(m)]

\* C5 witness: one stage resolved by two explicit names while a column outside
\* their range carries its number, and one stage resolved by its tagged columns
C5_Witness ==
    /\ ls_pc = "done"
    /\ \E k \in 1..Len(ls_sheet.stages) :
           LET st == ls_sheet.stages[k]
               e == ExplicitMembers(ls_sheet, st)
           IN  /\ Cardinality(e) >= 2
               /\ \E t \in TaggedMembers(ls_sheet, st) : t > Max(e)
               /\ ls_computed[k] = [start |-> Min(e), end |-> Max(e)]
    /\ \E k \in 1..Len(ls_sheet.stages) :
           LET st == ls_sheet.stages[k]
           IN  /\ ExplicitMembers(ls_sheet, st) = {}
               /\ TaggedMembers(ls_sheet, st) # {}
               /\ ls_computed[k].start # None

\* the sheet without its k-th stage
WithoutStage(sheet, k) ==
    [sheet EXCEPT !.stages =
        [i \in 1..(Len(sheet.stages) - 1) |->
            IF i < k THEN sheet.stages[i] ELSE sheet.stages[i + 1]]]

\* the writes of the stage-name row among the values().update calls
StageNameWrites(values) == SelectSeq(values, LAMBDA w : w.range[2] = "A2")

\* the merge and color requests of the stages among the batchUpdate requests
IsStageRequest(r) ==
    \/ r.kind = "mergeCells"
    \/ r.kind = "repeatCell" /\ r.startRowIndex = 1
StageRequestsOf(requests) == SelectSeq(requests, IsStageRequest)

\* C6: a stage that matches no column by name or by number gets no range, and
\* the stage ranges, the stage-name row and the merge and color requests are
\* those of the same sheet without that stage.
C6_UnresolvedStageSkipped ==
    ls_pc = "done" =>
        \A k \in 1..Len(ls_sheet.stages) :
            ResolvedMembers(ls_sheet, ls_sheet.stages[k]) = {} =>
                LET other == WithoutStage(ls_sheet, k)
                IN  /\ ls_computed[k] = [start |-> None, end |-> None]
                    /\ ls_stage_ranges = stage_loop(other, Len(other.stages)).ranges
                    /\ StageNameWrites(ls_values) = StageNameWrites(header_values(other))
                    /\ StageRequestsOf(ls_requests)
                           = StageRequestsOf(format_requests(other))

\* C6 witness: an unresolved stage beside a stage that got a merged, colored
\* range
C6_Witness ==
    /\ ls_pc = "done"
    /\ Len(ls_sheet.stages) = 2
    /\ ResolvedMembers(ls_sheet, ls_sheet.stages[1]) = {}
    /\ Len(ls_stage_ranges) = 1
    /\ ls_stage_ranges[1].end > ls_stage_ranges[1].start
    /\ Len(StageRequestsOf(ls_requests)) = 2
    /\ Len(StageNameWrites(ls_values)) = 1

\* the entries of stage_ranges in ascending stage_number order
SortByNum(ranges) ==
    [i \in 1..Len(ranges) |->
        CHOOSE e \in {ranges[j] : j \in 1..Len(ranges)} :
            Cardinality({j \in 1..Len(ranges) : ranges[j].num < e.num}) = i - 1]

\* C7: the stage regions of a sheet, and the merge and color requests emitted
\* for them, are in ascending stage_number order whatever the order of
\* sheet.stages.
C7_AscendingStageOrder ==
    ls_pc = "done" =>
        /\ \A i, j \in 1..Len(ls_stage_ranges) :
               i < j => ls_stage_ranges[i].num < ls_stage_ranges[j].num
        /\ any(ls_stage_names_row) =>
               StageRequestsOf(ls_requests)
                   = stage_requests(SortByNum(ls_stage_ranges), 1)

\* C8: every stage that resolved to a range has a color request over its
\* columns, with the color STAGE_COLORS[(stage_number - 1) mod 8]; the palette
\* has at least 8 colors, pairwise distinct.
C8_EveryResolvedStageColored ==
    ls_pc = "done" =>
        /\ \A i \in 1..Len(ls_stage_ranges) :
               \E q \in 1..Len(ls_requests) :
                   /\ ls_requests[q].kind = "repeatCell"
                   /\ ls_requests[q].startRowIndex = 1
                   /\ ls_requests[q].startColumnIndex = ls_stage_ranges[i].start
                   /\ ls_requests[q].endColumnIndex = ls_stage_ranges[i].end + 1
                   /\ ls_requests[q].backgroundColor
                          = STAGE_COLORS[((ls_stage_ranges[i].num - 1) % 8) + 1]
        /\ Len(STAGE_COLORS) >= 8
        /\ \A a, b \in 1..Len(STAGE_COLORS) : a # b => STAGE_COLORS[a] # STAGE_COLORS[b]

\* the frozen-row counts set by the requests
FrozenCounts(requests) ==
    {requests[i].frozenRowCount :
         i \in {j \in 1..Len(requests) : requests[j].kind = "updateSheetProperties"}}

\* C14: a sheet with an empty stages list gets its column names in row 1, a
\* frozen-row count of 1 and no merge request; a sheet with at least one
\* declared stage gets its column names in row 3 and a frozen-row count of 3.
C14_LayoutByStages ==
    ls_pc = "done" =>
        IF Len(ls_sheet.stages) = 0
        THEN /\ ls_values = <<[range |-> <<ls_sheet.name, "A1">>,
                                values |-> get_column_names(ls_sheet)]>>
             /\ FrozenCounts(ls_requests) = {1}
             /\ \A i \in 1..Len(ls_requests) : ls_requests[i].kind # "mergeCells"
        ELSE /\ ls_values[1] = [range |-> <<ls_sheet.name, "A3">>,
                                 values |-> get_column_names(ls_sheet)]
             /\ \A i \in 1..Len(ls_values) : ls_values[i].range[2] # "A1"
             /\ FrozenCounts(ls_requests) = {3}

\* C14 witness: a sheet whose only declared stage resolved to no column still
\* got the three-row layout
C14_Witness ==
    /\ ls_pc = "done"
    /\ Len(ls_sheet.stages) = 1
    /\ ls_stage_ranges = <<>>
    /\ ls_values = <<[range |-> <<ls_sheet.name, "A3">>,
                       values |-> get_column_names(ls_sheet)]>>
    /\ FrozenCounts(ls_requests) = {3}

\* the merge requests among the batchUpdate requests
MergeRequests(requests) == SelectSeq(requests, LAMBDA r : r.kind = "mergeCells")

\* the color requests of the stage band among the batchUpdate requests
ColorRequests(requests) ==
    SelectSeq(requests, LAMBDA r : r.kind = "repeatCell" /\ r.startRowIndex = 1)

\* the positions in sheet.stages of the stages that resolved to a range
ResolvedStages == {k \in 1..Len(ls_computed) : ls_computed[k].start # None}

\* C23: on a sheet with stages, each resolved stage with range [start, end]
\* has one merge request on row 2 over the columns start..end if end > start
\* and none if end = start, its name is written in row 2 at column start, and
\* its color request covers the columns start..end; there is no other merge
\* or color request.
C23_StageBandPerStage ==
    (ls_pc = "done" /\ has_stages(ls_sheet)) =>
        /\ \A k \in ResolvedStages :
               LET se == ls_computed[k]
                   st == ls_sheet.stages[k]
                   merges == {q \in 1..Len(ls_requests) :
                                 /\ ls_requests[q].kind = "mergeCells"
                                 /\ ls_requests[q].startRowIndex = 1
                                 /\ ls_requests[q].endRowIndex = 2
                                 /\ ls_requests[q].startColumnIndex = se.start
                                 /\ ls_requests[q].endColumnIndex = se.end + 1}
               IN  /\ se.end > se.start => merges # {}
                   /\ se.end = se.start => merges = {}
                   /\ \E w \in 1..Len(ls_values) :
                          /\ ls_values[w].range = <<ls_sheet.name, "A2">>
                          /\ ls_values[w].values[se.start + 1] = st.stage_name
                   /\ \E q \in 1..Len(ls_requests) :
                          /\ ls_requests[q].kind = "repeatCell"
                          /\ ls_requests[q].startRowIndex = 1
                          /\ ls_requests[q].startColumnIndex = se.start
                          /\ ls_requests[q].endColumnIndex = se.end + 1
        /\ Len(MergeRequests(ls_requests))
               = Cardinality({k \in ResolvedStages :
                                  ls_computed[k].end > ls_computed[k].start})
        /\ Len(ColorRequests(ls_requests)) = Cardinality(ResolvedStages)

\* the columns a request covers
ColumnsCovered(r) == r.startColumnIndex..(r.endColumnIndex - 1)

\* C24: the ranges of two stages of a sheet with different stage numbers are
\* disjoint, no two merge requests of the sheet cover a common column, and
\* the stage-name row holds the name of every stage at its start column.
C24_StageRangesDisjoint ==
    ls_pc = "done" =>
        /\ \A i, j \in 1..Len(ls_stage_ranges) :
               ls_stage_ranges[i].num # ls_stage_ranges[j].num =>
                   \/ ls_stage_ranges[i].end < ls_stage_ranges[j].start
                   \/ ls_stage_ranges[j].end < ls_stage_ranges[i].start
        /\ \A p, q \in 1..Len(MergeRequests(ls_requests)) :
               p # q => ColumnsCovered(MergeRequests(ls_requests)[p])
                            \cap ColumnsCovered(MergeRequests(ls_requests)[q]) = {}
        /\ \A i \in 1..Len(ls_stage_ranges) :
               ls_stage_names_row[ls_stage_ranges[i].start + 1]
                   = ls_stage_ranges[i].name

-----------------------------------------------------------------------------
(* Formula validation and application: properties *)

\* the rule's sheet is in the schema and its target column is on that sheet
RuleValid(flow, rule) ==
    \E i \in 1..Len(flow.sheets) :
        /\ flow.sheets[i].name = rule.sheet
        /\ \E c \in 1..Len(flow.sheets[i].columns) :
               flow.sheets[i].columns[c].name = rule.target_column

\* the valid rules of a plan, in plan order
ValidRules(flow, plan) == SelectSeq(plan, LAMBDA r : RuleValid(flow, r))

\* the rules the writes were issued for, in the order of the writes
WriteRules(writes) == [i \in 1..Len(writes) |-> writes[i].rule]

\* C2: in every pipeline, no formula write is issued for a rule whose sheet is
\* not in the schema or whose target column is not on that sheet; the other
\* rules of the plan are written.
C2_NoWriteForInvalidRule ==
    /\ \A i \in 1..Len(pl_writes) : RuleValid(pl_flow, pl_writes[i].rule)
    /\ pl_pc = "done" => WriteRules(pl_writes) = ValidRules(pl_flow, pl_llm_plan)

\* C3: the rules accepted by the validation loop of formula_agent (main_cli.py)
\* and by the checks of apply_formulas (main.py) are the rules of the plan
\* whose sheet is in the schema and whose target column is on that sheet, in
\* plan order and unchanged.
C3_AcceptedAreTheValidRules ==
    /\ (pl_pipeline = "cli" /\ pl_pc \in {"sheets", "setup", "apply", "done"}) =>
           pl_plan = ValidRules(pl_flow, pl_llm_plan)
    /\ (pl_pipeline = "main" /\ pl_pc = "done") =>
           WriteRules(pl_writes) = ValidRules(pl_flow, pl_llm_plan)

\* C3 witness: main_cli.py's validation kept the first and the third rule of a
\* plan and dropped the second, whose column is not on its sheet
C3_Witness ==
    /\ pl_pipeline = "cli"
    /\ pl_pc = "sheets"
    /\ Len(pl_llm_plan) = 3
    /\ find_sheet(pl_flow, pl_llm_plan[2].sheet) # 0
    /\ ~RuleValid(pl_flow, pl_llm_plan[2])
    /\ pl_plan = <<pl_llm_plan[1], pl_llm_plan[3]>>
    /\ pl_llm_plan[1] # pl_llm_plan[3]

\* the write a valid rule is due: the cell is the letter of the target column's
\* 1-based position followed by start_row, the text is the rule's formula
\* translated at start_row with the column map of the rule's sheet
ExpectedWrite(flow, rule) ==
    LET sh == CHOOSE x \in {flow.sheets[i] : i \in 1..Len(flow.sheets)} :
                  x.name = rule.sheet
        names == [c \in 1..Len(sh.columns) |-> sh.columns[c].name]
        pos == CHOOSE c \in 1..Len(names) : names[c] = rule.target_column
    IN  [sheet |-> rule.sheet,
         cell |-> col_letter(pos) \o str(rule.start_row),
         value |-> translate_formula(rule.formula, sheet_column_map(names),
                                     rule.start_row),
         rule |-> rule]

\* the writes due for the valid rules of a plan, in plan order
ExpectedWrites(flow, plan) ==
    LET v == ValidRules(flow, plan)
    IN  [i \in 1..Len(v) |-> ExpectedWrite(flow, v[i])]

\* C12: apply_formulas of main.py and GoogleSheetsManager.apply_formulas of
\* main_cli.py issue, for the accepted rules in plan order, exactly one write
\* each, to the cell <letter of the target column><start_row> of the rule's
\* sheet, with the rule's formula translated at start_row as its text.
C12_OneTranslatedWritePerRule ==
    (pl_pc = "done" /\ pl_pipeline \in {"main", "cli"}) =>
        pl_writes = ExpectedWrites(pl_flow, pl_plan)

\* the names of the sheets of a schema
SheetNames(flow) == {flow.sheets[i].name : i \in 1..Len(flow.sheets)}

\* the positions of the addSheet requests titled name
CreationsOf(name) ==
    {i \in 1..Len(pl_sheet_requests) :
         pl_sheet_requests[i].kind = "addSheet" /\ pl_sheet_requests[i].title = name}

\* the positions of the column-header writes (row 1 or row 3) to sheet name
HeaderWritesOf(name) ==
    {i \in 1..Len(pl_values) :
         pl_values[i].range[1] = name /\ pl_values[i].range[2] \in {"A1", "A3"}}

\* C13: once the sheets are set up, each sheet of the schema has exactly one
\* sheet-creation request and exactly one column-header write, holding its
\* column names, and no request or write goes to a name outside the schema.
C13_OneLayoutPerSheet ==
    pl_pc \in {"apply", "done"} =>
        /\ \A i \in 1..Len(pl_flow.sheets) :
               LET sh == pl_flow.sheets[i]
               IN  /\ Cardinality(CreationsOf(sh.name)) = 1
                   /\ Cardinality(HeaderWritesOf(sh.name)) = 1
                   /\ \A w \in HeaderWritesOf(sh.name) :
                          pl_values[w].values
                              = [c \in 1..Len(sh.columns) |-> sh.columns[c].name]
        /\ \A i \in 1..Len(pl_sheet_requests) :
               pl_sheet_requests[i].title \in SheetNames(pl_flow)
        /\ \A i \in 1..Len(pl_values) : pl_values[i].range[1] \in SheetNames(pl_flow)
        /\ Len(pl_sheet_requests) = Len(pl_flow.sheets)

\* C13 witness: main_cli.py set up two sheets, one of them with a stage, so
\* that a stage-name row was written beside the two column-header rows
C13_Witness ==
    /\ pl_pipeline = "cli"
    /\ pl_pc = "done"
    /\ Len(pl_flow.sheets) = 2
    /\ Len(pl_sheet_requests) = 2
    /\ Len(pl_values) = 3
    /\ \E i \in 1..2 : has_stages(pl_flow.sheets[i])

\* the rules of a plan that validation drops, in plan order
DroppedRules(flow, plan) == SelectSeq(plan, LAMBDA r : ~RuleValid(flow, r))

\* C15: the warning list handed back by formula_agent (main_cli.py) holds one
\* warning per dropped rule, in plan order, and is empty when no rule was
\* dropped.
C15_OneWarningPerDroppedRule ==
    (pl_pipeline = "cli" /\ pl_pc \in {"sheets", "setup", "apply", "done"}) =>
        LET dropped == DroppedRules(pl_flow, pl_llm_plan)
        IN  /\ Len(pl_warnings) = Len(dropped)
            /\ \A i \in 1..Len(pl_warnings) :
                   \/ pl_warnings[i].sheet = <<dropped[i].sheet>>
                   \/ pl_warnings[i].column = <<dropped[i].target_column>>

\* the columns of the sheet of that name
ColumnsOf(flow, name) ==
    LET sh == CHOOSE x \in {flow.sheets[i] : i \in 1..Len(flow.sheets)} : x.name = name
    IN  [c \in 1..Len(sh.columns) |-> sh.columns[c].name]

\* the warning a dropped rule is due
ExpectedWarning(flow, rule) ==
    IF rule.sheet \notin SheetNames(flow)
    THEN SkipMessage("sheet_not_found", <<rule.sheet>>, <<>>, <<>>)
    ELSE SkipMessage("column_not_found", <<rule.sheet>>, <<rule.target_column>>,
                     <<ColumnsOf(flow, rule.sheet)>>)

\* C16: the warning recorded for a rule dropped for a missing column names the
\* sheet and the missing column and lists the columns of that sheet; the
\* warning for a rule dropped for a missing sheet says the sheet was not found.
C16_WarningContent ==
    (pl_pipeline \in {"main", "cli"} /\ pl_pc = "done") =>
        LET dropped == DroppedRules(pl_flow, pl_llm_plan)
        IN  pl_log = [i \in 1..Len(dropped) |-> ExpectedWarning(pl_flow, dropped[i])]

\* the results _get_column_letter gives for the columns that exist
ExistingColumnLetters(flow) ==
    UNION {{get_column_letter(flow.sheets[i].columns[c].name, flow,
                              flow.sheets[i].name) :
                c \in 1..Len(flow.sheets[i].columns)} :
               i \in 1..Len(flow.sheets)}

\* C17: _get_column_letter, asked by apply_formulas for a column that is not on
\* the sheet or for a sheet that is not in the schema, gives a result that
\* differs from its result for every existing column.
C17_NoSilentDefault ==
    (pl_pipeline \in {"cli", "fms"} /\ pl_pc = "done") =>
        \A i \in 1..Len(pl_writes) :
            LET rule == pl_writes[i].rule
                letter == get_column_letter(rule.target_column, pl_flow, rule.sheet)
            IN  (/\ ~RuleValid(pl_flow, rule)
                 /\ pl_writes[i].cell = letter \o str(rule.start_row)) =>
                    letter \notin ExistingColumnLetters(pl_flow)

\* the rules of a plan, as a set
RulesOf(plan) == {plan[i] : i \in 1..Len(plan)}

\* a step of formula_agent, of the sheet setup or of apply_formulas leaves the
\* schema as it was; a step of the sheet setup or of apply_formulas leaves the
\* plan as it was, and every rule apply_formulas has gone through is still a
\* rule of the plan it was handed
InputsKept ==
    /\ pl_pc \in {"formula", "sheets", "setup", "apply"} => pl_flow' = pl_flow
    /\ pl_pc \in {"sheets", "setup", "apply"} => pl_plan' = pl_plan
    /\ pl_pc = "apply" =>
           \A i \in 1..Len(pl_writes') : pl_writes'[i].rule \in RulesOf(pl_plan)

WrittenSheetHasStages(flow, w) ==
    \E i \in 1..Len(flow.sheets) :
        flow.sheets[i].name = w.sheet /\ has_stages(flow.sheets[i])

\* C22: every formula write of GoogleSheetsManager.apply_formulas goes to a row
\* >= 2, and on a sheet with stages to a row below the three header rows.
C22_NoFormulaInHeaderRows ==
    (pl_pipeline \in {"cli", "fms"} /\ pl_pc = "done") =>
        \A i \in 1..Len(pl_writes) :
            LET w == pl_writes[i]
            IN  /\ w.rule.start_row >= 2
                /\ WrittenSheetHasStages(pl_flow, w) => w.rule.start_row > 3

\* C30: every formula text apply_formulas hands to the spreadsheet API begins
\* with the character '='.
C30_FormulaTextBeginsWithEquals ==
    pl_pc = "done" =>
        \A i \in 1..Len(pl_writes) :
            /\ pl_writes[i].value # <<>>
            /\ pl_writes[i].value[1] = "="

\* a phase of the run ended with an error
PhaseFailed ==
    \E i \in 1..Len(pl_trace) : pl_trace[i] \in {"structure_failed", "formula_failed"}

\* C25: in main (main_cli.py) and in FMSAgent.execute a remote spreadsheet call
\* is issued only after the structure phase and then the formula phase ended
\* without error, the first such call creating the spreadsheet; a run with a
\* failed phase issues none; and without a flow structure the formula phase
\* makes no LLM call.
C25_SpreadsheetAfterBothPhases ==
    pl_pipeline \in {"cli", "fms"} =>
        /\ pl_remote # <<>> =>
               /\ pl_trace = <<"structure_ok", "formula_ok">>
               /\ pl_remote[1] = "create_spreadsheet"
        /\ PhaseFailed => pl_remote = <<>>
        /\ pl_flow = NoFlow => pl_llm_calls <= 1

\* C25 witness: in main_cli.py the structure phase failed, the formula phase
\* ended without a model call, and the run stopped before any remote call
C25_Witness ==
    /\ pl_pipeline = "cli"
    /\ pl_pc = "failed"
    /\ pl_trace = <<"structure_failed", "formula_failed">>
    /\ pl_llm_calls = 1
    /\ pl_remote = <<>>

-----------------------------------------------------------------------------
(* Model invocation with retries: properties *)

\* C26: invoke makes at most MAX_RETRIES calls and stops after them; no call
\* follows a call that succeeded; it returns only the content of a call that
\* succeeded, the last one made; when all MAX_RETRIES calls fail it raises
\* the exception of the last call; with MAX_RETRIES = 0 it makes no call and
\* raises.
C26_InvokeBounded ==
    iv_pc # "idle" =>
        /\ Len(iv_calls) <= iv_max
        /\ \A i \in 1..(Len(iv_calls) - 1) : ~iv_calls[i].ok
        /\ iv_pc = "loop" => (Len(iv_calls) < iv_max \/ iv_max = 0)
        /\ iv_pc = "returned" =>
               /\ iv_calls # <<>>
               /\ iv_calls[Len(iv_calls)].ok
               /\ iv_result = [raised |-> FALSE, value |-> iv_calls[Len(iv_calls)].value]
        /\ (iv_pc = "raised" /\ iv_max > 0) =>
               /\ Len(iv_calls) = iv_max
               /\ \A i \in 1..Len(iv_calls) : ~iv_calls[i].ok
               /\ iv_result = [raised |-> TRUE, value |-> iv_calls[iv_max].value]
        /\ (iv_pc = "raised" /\ iv_max = 0) =>
               /\ iv_calls = <<>>
               /\ iv_result.raised
        /\ (iv_pc \in {"returned", "raised"} /\ Len(iv_calls) < iv_max) =>
               iv_calls[Len(iv_calls)].ok

\* C26 witness: with MAX_RETRIES = 3, three failed calls and the exception of
\* the third raised
C26_Witness ==
    /\ iv_pc = "raised"
    /\ iv_max = 3
    /\ iv_calls = <<[ok |-> FALSE, value |-> "error1"],
                    [ok |-> FALSE, value |-> "error1"],
                    [ok |-> FALSE, value |-> "error2"]>>
    /\ iv_result = [raised |-> TRUE, value |-> "error2"]

-----------------------------------------------------------------------------
(* Extraction of the JSON text of a response: properties *)

\* the text the brackets are looked for in
Stripped(content) == strip(strip_fence(strip(content)))

\* the 0-based positions of the opening brackets of a text
Openings(t) == {i \in 0..(Len(t) - 1) : t[i + 1] \in {"{", "["}}

\* how many times ch occurs in t from 0-based position a to b
CountIn(t, ch, a, b) == Cardinality({i \in a..b : t[i + 1] = ch})

\* the 0-based positions at which the bracket opened at position s is closed
Closings(t, s) ==
    LET open_char == t[s + 1]
        close_char == IF open_char = "{" THEN "}" ELSE "]"
    IN  {e \in s..(Len(t) - 1) :
             /\ t[e + 1] = close_char
             /\ CountIn(t, open_char, s, e) = CountIn(t, close_char, s, e)}

\* C29: clean returns the substring from the earliest opening brace or
\* bracket of the text (after fence stripping) to the bracket that closes it,
\* and raises ValueError when the text has no opening bracket or the first
\* one is never closed.
C29_FirstBalancedValue ==
    jc_pc \in {"returned", "raised"} =>
        LET t == Stripped(jc_content)
        IN  IF Openings(t) = {} THEN jc_out.raised
            ELSE LET s == Min(Openings(t))
                 IN  IF Closings(t, s) = {} THEN jc_out.raised
                     ELSE LET e == Min(Closings(t, s))
                          IN  /\ ~jc_out.raised => jc_out.text = SubSeq(t, s + 1, e + 1)
                              /\ jc_out.raised =>
                                     ~json_loads_accepts(SubSeq(t, s + 1, e + 1))

-----------------------------------------------------------------------------
(* Broadcast to the WebSocket clients: properties *)

\* the send_json calls the broadcast made on a connection
SendsTo(ws) == {i \in 1..Len(bc_sends) : bc_sends[i].to = ws}

\* C27: when a broadcast has ended, every connection that was in
\* active_connections from its beginning to its end got exactly one send_json
\* call, whatever connected or disconnected meanwhile and whichever sends
\* failed.
C27_BroadcastReachesAll ==
    bc_pc = "done" => \A ws \in bc_stayed : Cardinality(SendsTo(ws)) = 1

-----------------------------------------------------------------------------
(* The workflow endpoint: properties *)

\* the positions of the "complete" and "error" messages among the broadcasts
\* of a request
TerminalsOf(r) ==
    {i \in 1..Len(wf_broadcasts[r]) : wf_broadcasts[r][i].type \in {"complete", "error"}}

\* C28: a create_workflow request that has ended sent exactly one message of
\* type "complete" or "error", as its last broadcast: "complete" if and only
\* if it returned the success response, "error" if and only if it ended with
\* HTTP 500; a request that has not ended has sent none.
C28_OneTerminalBroadcast ==
    \A r \in DOMAIN wf_pc :
        IF wf_pc[r] = "done"
        THEN /\ TerminalsOf(r) = {Len(wf_broadcasts[r])}
             /\ wf_response[r] \in {"success", "http500"}
             /\ wf_broadcasts[r][Len(wf_broadcasts[r])].type = "complete"
                    <=> wf_response[r] = "success"
             /\ wf_broadcasts[r][Len(wf_broadcasts[r])].type = "error"
                    <=> wf_response[r] = "http500"
        ELSE /\ TerminalsOf(r) = {}
             /\ wf_response[r] = "none"

\* C28 witness: one request ended with the success response, another with
\* HTTP 500 after the error log of execute
C28_Witness ==
    /\ DOMAIN wf_pc = Requests
    /\ wf_pc[1] = "done" /\ wf_response[1] = "success"
    /\ wf_pc[2] = "done" /\ wf_response[2] = "http500"
    /\ wf_broadcasts[2] = <<LogMessage("init"), LogMessage("setup"),
                            LogMessage("structure"), LogMessage("structure"),
                            LogMessage("error"), TerminalMessage("error")>>

-----------------------------------------------------------------------------
(* Specifications *)

SpecAddr == InitAddr /\ [][NextAddr]_vars

SpecTranslate == InitTranslate /\ [][NextTranslate]_vars

SpecLayout == InitLayout /\ [][NextLayout]_vars

SpecPipeline == InitPipeline /\ [][NextPipeline]_vars

SpecValidate == InitValidate /\ [][NextValidate]_vars

SpecInvoke == InitInvoke /\ [][NextInvoke]_vars

SpecClean == InitClean /\ [][NextClean]_vars

SpecBroadcast == InitBroadcast /\ [][NextBroadcast]_vars

SpecWorkflow == InitWorkflow /\ [][NextWorkflow]_vars

====
